---------------------------- MODULE Spec2Model ----------------------------
(***************************************************************************)
(* FillFlow: coordinate conversion, field mapper, text extraction, line    *)
(* grouping and label detection, text wrapping, preview and PDF rendering, *)
(* batch export, the editor's reducer and template import, template        *)
(* storage, background upload and font matching, modelled from the         *)
(* TypeScript sources.                                                     *)
(*                                                                         *)
(* JavaScript numbers are modelled as exact rationals <<n, d>> (d > 0,     *)
(* lowest terms): every *, /, + and - of the source is the corresponding   *)
(* rational operation.  IEEE-754 rounding is outside the model.            *)
(***************************************************************************)
EXTENDS Integers, Sequences, FiniteSets, TLC

VARIABLES
    cc,               \* the CoordinateConverter instance: pdfDimensions, canvasDimensions, scale, dpi
    ccOrigin,         \* the point handed to the first conversion call
    ccCur,            \* the result of the latest conversion call
    ccHist,           \* the conversion calls made so far, in order
    exItems,          \* textContent.items of the page handed to extractTextWithPositions
    exViewport,       \* page.getViewport({scale: 1.0})
    exOut,            \* what extractTextWithPositions returned
    exDone,           \* extractTextWithPositions has returned
    gRuns,            \* extractedData handed to groupNearbyText
    gTol,             \* maxDistance of the latest groupNearbyText call
    gGroups,          \* the `group` arrays of that call, as indices into gRuns
    gOut,             \* what groupNearbyText returned
    gDone,            \* groupNearbyText has returned
    wText,            \* text handed to wrapText, as a sequence of characters
    wMaxWidth,        \* maxWidth handed to wrapText
    wContext,         \* whether canvas.getContext('2d') returns a context
    wLines,           \* what wrapText returned
    wDone,            \* wrapText has returned
    currentTemplate,  \* AppState.currentTemplate (NoTemplate for null)
    formData,         \* AppState.formData
    selectedFieldId,  \* AppState.selectedFieldId (NoField for null)
    zoom,             \* AppState.zoom
    scale,            \* FieldMapper's useState scale
    effectDue,        \* the template changed since FieldMapper's effect last ran
    lastPointer,      \* the latest canvas click or drag stop: where, and under which scale
    rTemplate,        \* the template handed to the live preview and to generatePDF
    rData,            \* formData handed to them: a value per field id (Undefined when unbound)
    pvDraws,          \* the fillText calls of the latest PDFPreview render, in order
    pvDone,           \* PDFPreview's effect has rendered
    gen,              \* the running generatePDF call: position, options, progress, pdf.text calls, result
    bat,              \* the running batchExport call: records, loop index, counters, saved files
    lastAction,       \* the latest action handed to formReducer, or the latest import attempt
    saver,            \* localStorage as TemplateSaver uses it, and the TemplateSaver calls made
    fm,               \* the FontMatcher instance: customFonts, fontMappings, and the calls made
    det,              \* the detectFormFields call: its input lines and what it returned
    up                \* BackgroundUpload: the files being processed and the template they update

ccVars == <<cc, ccOrigin, ccCur, ccHist>>
exVars == <<exItems, exViewport, exOut, exDone>>
gVars == <<gRuns, gTol, gGroups, gOut, gDone>>
wVars == <<wText, wMaxWidth, wContext, wLines, wDone>>
appVars == <<currentTemplate, formData, selectedFieldId, zoom, scale, effectDue, lastPointer>>
rnVars == <<rTemplate, rData, pvDraws, pvDone, gen>>
batVars == <<bat>>
edVars == <<lastAction>>
libVars == <<saver, fm, det, up>>

vars == <<cc, ccOrigin, ccCur, ccHist, exItems, exViewport, exOut, exDone,
          gRuns, gTol, gGroups, gOut, gDone, wText, wMaxWidth, wContext, wLines, wDone,
          currentTemplate, formData, selectedFieldId, zoom, scale, effectDue,
          lastPointer, rTemplate, rData, pvDraws, pvDone, gen, bat, lastAction,
          saver, fm, det, up>>

NotCc == <<exVars, gVars, wVars, appVars, rnVars, batVars, edVars, libVars>>
NotEx == <<ccVars, gVars, wVars, appVars, rnVars, batVars, edVars, libVars>>
NotG == <<ccVars, exVars, wVars, appVars, rnVars, batVars, edVars, libVars>>
NotW == <<ccVars, exVars, gVars, appVars, rnVars, batVars, edVars, libVars>>
NotApp == <<exVars, gVars, wVars, rnVars, batVars, edVars, libVars>>
NotRn == <<ccVars, exVars, gVars, wVars, appVars, batVars, edVars, libVars>>
NotBat == <<ccVars, exVars, gVars, wVars, appVars, rnVars, edVars, libVars>>
NotSaver == <<ccVars, exVars, gVars, wVars, appVars, rnVars, batVars, edVars, fm, det, up>>
NotFm == <<ccVars, exVars, gVars, wVars, appVars, rnVars, batVars, edVars, saver, det, up>>
NotDet == <<ccVars, exVars, gVars, wVars, appVars, rnVars, batVars, edVars, saver, fm, up>>
NotUp == <<ccVars, exVars, gVars, wVars, appVars, rnVars, batVars, edVars, saver, fm, det>>
NotEd == <<ccVars, exVars, gVars, wVars, zoom, scale, effectDue, lastPointer, rnVars, batVars, libVars>>

-----------------------------------------------------------------------------
(* JavaScript number arithmetic, as exact rationals                         *)

Abs(n) == IF n < 0 THEN -n ELSE n

RECURSIVE GCD(_, _)
GCD(a, b) == IF b = 0 THEN a ELSE GCD(b, a % b)

Rat(n, d) ==
    LET s == IF d < 0 THEN -1 ELSE 1
        g == GCD(Abs(n), Abs(d))
    IN  <<(s * n) \div g, (s * d) \div g>>

Num(n) == <<n, 1>>

RAdd(a, b) ==
    LET g == GCD(a[2], b[2])
    IN  Rat(a[1] * (b[2] \div g) + b[1] * (a[2] \div g), (a[2] \div g) * b[2])
RSub(a, b) ==
    LET g == GCD(a[2], b[2])
    IN  Rat(a[1] * (b[2] \div g) - b[1] * (a[2] \div g), (a[2] \div g) * b[2])
RMul(a, b) == Rat(a[1] * b[1], a[2] * b[2])
RDiv(a, b) == Rat(a[1] * b[2], a[2] * b[1])
RLe(a, b)  == a[1] * b[2] <= b[1] * a[2]
RLt(a, b)  == a[1] * b[2] < b[1] * a[2]
RAbs(a)    == <<Abs(a[1]), a[2]>>
RMin(a, b) == IF RLe(a, b) THEN a ELSE b
RMax(a, b) == IF RLe(a, b) THEN b ELSE a

Pt(x, y) == [x |-> x, y |-> y]

-----------------------------------------------------------------------------
(* CoordinateConverter                                                      *)

NewConverter(pdfDimensions, canvasDimensions) ==
    [pdfDimensions |-> pdfDimensions, canvasDimensions |-> canvasDimensions,
     scale |-> Num(1), dpi |-> Num(72)]

pdfToCanvas_NoFlip(c, x, y) ==
    LET scaleX == RDiv(c.canvasDimensions.width, c.pdfDimensions.width)
        scaleY == RDiv(c.canvasDimensions.height, c.pdfDimensions.height)
    IN  Pt(RMul(x, scaleX), RMul(y, scaleY))

pdfToCanvas(c, x, y) ==
    LET scaleX == RDiv(c.canvasDimensions.width, c.pdfDimensions.width)
        scaleY == RDiv(c.canvasDimensions.height, c.pdfDimensions.height)
    IN  Pt(RMul(x, scaleX), RSub(c.canvasDimensions.height, RMul(y, scaleY)))

canvasToPdf(c, x, y) ==
    LET scaleX == RDiv(c.pdfDimensions.width, c.canvasDimensions.width)
        scaleY == RDiv(c.pdfDimensions.height, c.canvasDimensions.height)
    IN  Pt(RMul(x, scaleX), RMul(RSub(c.canvasDimensions.height, y), scaleY))

canvasToScreen(c, x, y) == Pt(RMul(x, c.scale), RMul(y, c.scale))

screenToCanvas(c, x, y) == Pt(RDiv(x, c.scale), RDiv(y, c.scale))

updateScale(c, newScale) == [c EXCEPT !.scale = newScale]

-----------------------------------------------------------------------------
(* Inputs of the converter specification                                    *)

MaxCalls == 2

DimensionValues ==
    { [width |-> Num(2), height |-> Num(3)],
      [width |-> Num(4), height |-> Num(4)],
      [width |-> Rat(5, 2), height |-> Num(6)] }

CoordValues == { Num(0), Num(3), Rat(5, 2), Num(-4) }

ScaleValues == { Num(1), Rat(1, 2) }

ccIdle ==
    /\ cc = NewConverter([width |-> Num(1), height |-> Num(1)], [width |-> Num(1), height |-> Num(1)])
    /\ ccOrigin = Pt(Num(0), Num(0))
    /\ ccCur = Pt(Num(0), Num(0))
    /\ ccHist = <<>>

exIdle == exItems = <<>> /\ exViewport = [width |-> Num(1), height |-> Num(1)]
          /\ exOut = <<>> /\ exDone = FALSE

gIdle == gRuns = <<>> /\ gTol = Num(0) /\ gGroups = <<>> /\ gOut = <<>>
         /\ gDone = FALSE

wIdle == wText = <<>> /\ wMaxWidth = 0 /\ wContext = TRUE /\ wLines = <<>>
         /\ wDone = FALSE

\* useState(false), useState(0), useState(null) of usePDFGeneration, no call made
GenIdle ==
    [pc |-> "idle", format |-> "pdf", isGenerating |-> FALSE, progress |-> Num(0),
     error |-> FALSE, index |-> 0, threw |-> 0, draws |-> <<>>, result |-> "none"]

rnIdle == rTemplate = [isNull |-> TRUE] /\ rData = <<>> /\ pvDraws = <<>> /\ pvDone = FALSE
          /\ gen = GenIdle

BatIdle ==
    [pc |-> "idle", records |-> <<>>, i |-> 0, success |-> 0, failed |-> 0,
     outcomes |-> <<>>, saved |-> <<>>, isGenerating |-> FALSE, progress |-> Num(0)]

batIdle == bat = BatIdle

edIdle == lastAction = [type |-> "INIT"]

\* an empty localStorage and no TemplateSaver call made
SaverIdle == [items |-> <<>>, calls |-> <<>>]

saverIdle == saver = SaverIdle

\* no FontMatcher constructed
fmIdle == fm = [matcher |-> [customFonts |-> <<>>, fontMappings |-> <<>>],
                constructed |-> <<>>, mutations |-> <<>>,
                query |-> [base |-> <<>>, suffix |-> <<>>], last |-> [op |-> "none"]]

\* no detectFormFields call made
detIdle == det = [extractedData |-> <<>>, formFields |-> <<>>, done |-> FALSE]

\* BackgroundUpload with no file selected: useState(false), no template yet
UpIdle == [template |-> [isNull |-> TRUE], tasks |-> <<>>, isProcessing |-> FALSE, notifications |-> <<>>]

upIdle == up = UpIdle

libIdle == saverIdle /\ fmIdle /\ detIdle /\ upIdle

NoTemplate == [isNull |-> TRUE]
NoField == "null"

\* initialState of the reducer, and FieldMapper's useState(1)
appInitial ==
    /\ currentTemplate = NoTemplate
    /\ formData = <<>>
    /\ selectedFieldId = NoField
    /\ zoom = [level |-> Num(1), offsetX |-> 0, offsetY |-> 0]
    /\ scale = Num(1)
    /\ effectDue = FALSE
    /\ lastPointer = [kind |-> "none"]

ConvInit ==
    /\ libIdle
    /\ exIdle /\ gIdle /\ wIdle /\ appInitial /\ rnIdle /\ batIdle /\ edIdle
    /\ \E p \in DimensionValues, d \in DimensionValues : cc = NewConverter(p, d)
    /\ \E x \in CoordValues, y \in CoordValues : ccOrigin = Pt(x, y)
    /\ ccCur = ccOrigin
    /\ ccHist = <<>>

CallPdfToCanvas ==
    /\ Len(ccHist) < MaxCalls
    /\ ccCur' = pdfToCanvas(cc, ccCur.x, ccCur.y)
    /\ ccHist' = Append(ccHist, "pdfToCanvas")
    /\ UNCHANGED <<cc, ccOrigin, NotCc>>

CallCanvasToPdf ==
    /\ Len(ccHist) < MaxCalls
    /\ ccCur' = canvasToPdf(cc, ccCur.x, ccCur.y)
    /\ ccHist' = Append(ccHist, "canvasToPdf")
    /\ UNCHANGED <<cc, ccOrigin, NotCc>>

CallCanvasToScreen ==
    /\ Len(ccHist) < MaxCalls
    /\ ccCur' = canvasToScreen(cc, ccCur.x, ccCur.y)
    /\ ccHist' = Append(ccHist, "canvasToScreen")
    /\ UNCHANGED <<cc, ccOrigin, NotCc>>

CallScreenToCanvas ==
    /\ Len(ccHist) < MaxCalls
    /\ ccCur' = screenToCanvas(cc, ccCur.x, ccCur.y)
    /\ ccHist' = Append(ccHist, "screenToCanvas")
    /\ UNCHANGED <<cc, ccOrigin, NotCc>>

CallUpdateScale ==
    /\ \E s \in ScaleValues : s # cc.scale /\ cc' = updateScale(cc, s)
    /\ UNCHANGED <<ccOrigin, ccCur, ccHist, NotCc>>

ConvNext ==
    \/ CallPdfToCanvas
    \/ CallCanvasToPdf
    \/ CallCanvasToScreen
    \/ CallScreenToCanvas
    \/ CallUpdateScale

SpecConv == ConvInit /\ [][ConvNext]_vars

-----------------------------------------------------------------------------
(* Claims about the converter                                               *)

Tolerance == Rat(1, 1000000)

WithinTolerance(a, b) ==
    LET d == RAbs(RSub(a, b))
    IN  IF d[1] > 2000 THEN FALSE ELSE RLe(d, Tolerance)

\* C1: canvasToPdf(pdfToCanvas(x, y)) returns (x, y) within 1e-6 for every
\* point and every pair of positive document and display dimensions,
\* whatever scale the converter has at either call.
C1_RoundTrip ==
    ccHist = <<"pdfToCanvas", "canvasToPdf">> =>
        /\ WithinTolerance(ccCur.x, ccOrigin.x)
        /\ WithinTolerance(ccCur.y, ccOrigin.y)

\* C1 witness: a completed round trip between different dimensions, with a
\* zoom scale other than 1 and a point whose y the flip really moves.
C1_Witness ==
    /\ ccHist = <<"pdfToCanvas", "canvasToPdf">>
    /\ cc.pdfDimensions # cc.canvasDimensions
    /\ cc.scale # Num(1)
    /\ ccOrigin.y # Num(0)
    /\ ccOrigin.x = Rat(5, 2)

-----------------------------------------------------------------------------
(* PDFParser.extractTextWithPositions                                       *)

\* item.str.trim() is truthy: the string is not made of white space only
TrimIsNonEmpty(str) == str \notin {"", " ", "  "}

\* item.fontName || 'Unknown'
FontNameOrUnknown(fontName) == IF fontName = "" THEN "Unknown" ELSE fontName

ExtractItem_NoFlip(item, viewport) ==
    [text |-> item.str,
     x |-> item.transform[5],
     y |-> item.transform[6],
     width |-> item.width,
     height |-> item.height,
     fontName |-> FontNameOrUnknown(item.fontName),
     fontSize |-> RAbs(item.transform[4])]

\* the body of the forEach callback for an item that passes the test
\* (transform[4], transform[5], transform[3] of the source are the 5th, 6th and
\* 4th entries here, sequences being 1-based)
ExtractItem(item, viewport) ==
    [text |-> item.str,
     x |-> item.transform[5],
     y |-> RSub(viewport.height, item.transform[6]),
     width |-> item.width,
     height |-> item.height,
     fontName |-> FontNameOrUnknown(item.fontName),
     fontSize |-> RAbs(item.transform[4])]

ItemIsKept(item) == item.hasStr /\ TrimIsNonEmpty(item.str)

RECURSIVE ExtractFrom(_, _, _, _)
ExtractFrom(items, viewport, i, extractedFields) ==
    IF i > Len(items) THEN extractedFields
    ELSE IF ItemIsKept(items[i])
         THEN ExtractFrom(items, viewport, i + 1,
                          Append(extractedFields, ExtractItem(items[i], viewport)))
         ELSE ExtractFrom(items, viewport, i + 1, extractedFields)

extractTextWithPositions(items, viewport) == ExtractFrom(items, viewport, 1, <<>>)

MaxItems == 2

TextItem(str, d, e, f, w, h, font) ==
    [hasStr |-> TRUE, str |-> str,
     transform |-> <<Num(d), Num(0), Num(0), Num(d), Num(e), Num(f)>>,
     width |-> Num(w), height |-> Num(h), fontName |-> font]

ItemPool ==
    { TextItem("Full Name", 12, 40, 700, 50, 10, "Helvetica"),
      TextItem("Date", -9, 120, 92, 20, 9, ""),
      TextItem("Total", 10, 0, 396, 30, 10, "Courier"),
      TextItem(" ", 12, 90, 700, 3, 10, "Helvetica"),
      [hasStr |-> FALSE, str |-> "",
       transform |-> <<Num(1), Num(0), Num(0), Num(1), Num(0), Num(0)>>,
       width |-> Num(0), height |-> Num(0), fontName |-> ""] }

ViewportPool == { [width |-> Num(612), height |-> Num(792)],
                  [width |-> Num(200), height |-> Num(100)] }

SeqsUpTo(S, n) == UNION { [1..k -> S] : k \in 0..n }

ExInit ==
    /\ libIdle
    /\ ccIdle /\ gIdle /\ wIdle /\ appInitial /\ rnIdle /\ batIdle /\ edIdle
    /\ exItems \in SeqsUpTo(ItemPool, MaxItems)
    /\ exViewport \in ViewportPool
    /\ exOut = <<>>
    /\ exDone = FALSE

ExtractText ==
    /\ ~exDone
    /\ exOut' = extractTextWithPositions(exItems, exViewport)
    /\ exDone' = TRUE
    /\ UNCHANGED <<exItems, exViewport, NotEx>>

\* the next page load hands over another page
LoadPage ==
    /\ exDone
    /\ exItems' \in SeqsUpTo(ItemPool, MaxItems)
    /\ exViewport' \in ViewportPool
    /\ exOut' = <<>>
    /\ exDone' = FALSE
    /\ UNCHANGED NotEx

ExNext == ExtractText \/ LoadPage

SpecExtract == ExInit /\ [][ExNext]_vars

KeptItems == SelectSeq(exItems, ItemIsKept)

-----------------------------------------------------------------------------
(* PDFParser.groupNearbyText                                                *)

RECURSIVE SeqMin(_)
SeqMin(s) == IF Len(s) = 1 THEN s[1] ELSE RMin(s[1], SeqMin(Tail(s)))

RECURSIVE SeqMax(_)
SeqMax(s) == IF Len(s) = 1 THEN s[1] ELSE RMax(s[1], SeqMax(Tail(s)))

RECURSIVE SeqSum(_)
SeqSum(s) == IF s = <<>> THEN Num(0) ELSE RAdd(s[1], SeqSum(Tail(s)))

\* Array.prototype.join(' ')
RECURSIVE JoinWithSpace(_)
JoinWithSpace(texts) ==
    IF texts = <<>> THEN ""
    ELSE IF Len(texts) = 1 THEN texts[1]
    ELSE texts[1] \o " " \o JoinWithSpace(Tail(texts))

RECURSIVE NearbyFrom_Strict(_, _, _, _, _)
NearbyFrom_Strict(extractedData, maxDistance, index, processed, i) ==
    IF i > Len(extractedData) THEN <<>>
    ELSE LET yDiff == RAbs(RSub(extractedData[i].y, extractedData[index].y))
             rest == NearbyFrom_Strict(extractedData, maxDistance, index, processed, i + 1)
         IN  IF i \notin processed /\ RLt(yDiff, maxDistance)
             THEN <<i>> \o rest
             ELSE rest

\* the inner for loop: the indices after `index` that are not processed and
\* whose y is within maxDistance of currentY = item.y, in ascending order
RECURSIVE NearbyFrom(_, _, _, _, _)
NearbyFrom(extractedData, maxDistance, index, processed, i) ==
    IF i > Len(extractedData) THEN <<>>
    ELSE LET yDiff == RAbs(RSub(extractedData[i].y, extractedData[index].y))
             rest == NearbyFrom(extractedData, maxDistance, index, processed, i + 1)
         IN  IF i \notin processed /\ RLe(yDiff, maxDistance)
             THEN <<i>> \o rest
             ELSE rest

MergeGroup_FirstX(extractedData, members) ==
    LET group == [k \in 1..Len(members) |-> extractedData[members[k]]]
        item == group[1]
        minX == item.x
        maxX == SeqMax([k \in 1..Len(group) |-> RAdd(group[k].x, group[k].width)])
        avgY == RDiv(SeqSum([k \in 1..Len(group) |-> group[k].y]), Num(Len(group)))
    IN  [text |-> JoinWithSpace([k \in 1..Len(group) |-> group[k].text]),
         x |-> minX, y |-> avgY, width |-> RSub(maxX, minX),
         height |-> item.height, fontName |-> item.fontName, fontSize |-> item.fontSize]

\* "Merge group into a single field": members[1] is `index`, the item of the
\* forEach callback
MergeGroup(extractedData, members) ==
    LET group == [k \in 1..Len(members) |-> extractedData[members[k]]]
        item == group[1]
        minX == SeqMin([k \in 1..Len(group) |-> group[k].x])
        maxX == SeqMax([k \in 1..Len(group) |-> RAdd(group[k].x, group[k].width)])
        avgY == RDiv(SeqSum([k \in 1..Len(group) |-> group[k].y]), Num(Len(group)))
    IN  [text |-> JoinWithSpace([k \in 1..Len(group) |-> group[k].text]),
         x |-> minX, y |-> avgY, width |-> RSub(maxX, minX),
         height |-> item.height, fontName |-> item.fontName, fontSize |-> item.fontSize]

SeqToSet(s) == { s[k] : k \in 1..Len(s) }

\* the forEach over extractedData; `groups` collects the members of each group
RECURSIVE GroupFrom_Forget(_, _, _, _, _)
GroupFrom_Forget(extractedData, maxDistance, index, processed, groups) ==
    IF index > Len(extractedData) THEN groups
    ELSE IF index \in processed
         THEN GroupFrom_Forget(extractedData, maxDistance, index + 1, processed, groups)
         ELSE LET members == <<index>> \o
                      NearbyFrom(extractedData, maxDistance, index, processed, index + 1)
              IN  GroupFrom_Forget(extractedData, maxDistance, index + 1,
                                   processed \cup {index}, Append(groups, members))

RECURSIVE GroupFrom(_, _, _, _, _)
GroupFrom(extractedData, maxDistance, index, processed, groups) ==
    IF index > Len(extractedData) THEN groups
    ELSE IF index \in processed
         THEN GroupFrom(extractedData, maxDistance, index + 1, processed, groups)
         ELSE LET members == <<index>> \o
                      NearbyFrom(extractedData, maxDistance, index, processed, index + 1)
              IN  GroupFrom(extractedData, maxDistance, index + 1,
                            processed \cup SeqToSet(members), Append(groups, members))

GroupMembers(extractedData, maxDistance) ==
    GroupFrom(extractedData, maxDistance, 1, {}, <<>>)

groupNearbyText(extractedData, maxDistance) ==
    LET groups == GroupMembers(extractedData, maxDistance)
    IN  [k \in 1..Len(groups) |-> MergeGroup(extractedData, groups[k])]

\* maxDistance: number = 5
DefaultMaxDistance == 5

MaxRuns == 3

Run(text, x, y, w, h, font, size) ==
    [text |-> text, x |-> Num(x), y |-> Num(y), width |-> Num(w), height |-> Num(h),
     fontName |-> font, fontSize |-> Num(size)]

RunPool ==
    { Run("Full Name", 40, 700, 50, 10, "Helvetica", 10),
      Run("Doe, John", 120, 702, 45, 12, "Times", 12),
      Run("Date", 30, 704, 20, 14, "Courier", 14),
      Run("Phone", 200, 706, 30, 9, "Helvetica", 9),
      Run("City", 10, 650, 25, 11, "Arial", 11) }

TolerancePool == { Num(0), Num(2) }

GInit ==
    /\ libIdle
    /\ ccIdle /\ exIdle /\ wIdle /\ appInitial /\ rnIdle /\ batIdle /\ edIdle
    /\ gRuns \in SeqsUpTo(RunPool, MaxRuns)
    /\ gTol = Num(0)
    /\ gGroups = <<>>
    /\ gOut = <<>>
    /\ gDone = FALSE

\* groupNearbyText(extractedData), as analyzePDFForTemplate calls it
GroupDefault ==
    /\ ~gDone
    /\ gDone' = TRUE
    /\ gTol' = Num(DefaultMaxDistance)
    /\ gGroups' = GroupMembers(gRuns, Num(DefaultMaxDistance))
    /\ gOut' = groupNearbyText(gRuns, Num(DefaultMaxDistance))
    /\ UNCHANGED <<gRuns, NotG>>

\* groupNearbyText(extractedData, maxDistance)
GroupWith ==
    /\ ~gDone
    /\ gDone' = TRUE
    /\ \E t \in TolerancePool :
          /\ gTol' = t
          /\ gGroups' = GroupMembers(gRuns, t)
          /\ gOut' = groupNearbyText(gRuns, t)
    /\ UNCHANGED <<gRuns, NotG>>

GNext == GroupDefault \/ GroupWith

SpecGroup == GInit /\ [][GNext]_vars

\* the line (index into gOut) that run i of the input was merged into
LineOf(i) == CHOOSE k \in 1..Len(gGroups) : i \in SeqToSet(gGroups[k])

YDiff(i, j) == RAbs(RSub(gRuns[i].y, gRuns[j].y))

FirstRunOf(k) == gGroups[k][1]

\* C5 as stated: any two runs whose y differ by at most the tolerance are in
\* the same merged line.
C5_PairwiseSameLine ==
    gDone =>
        \A i, j \in 1..Len(gRuns) :
            RLe(YDiff(i, j), gTol) => LineOf(i) = LineOf(j)

\* C5 as amended: a run is merged into the line of the earliest line-starting
\* run whose y differs from its own by at most the tolerance; runs are
\* compared with the first run of a line only.
C5_NearestFirstRun ==
    gDone =>
        \A j \in 1..Len(gRuns) :
            LET near == { k \in 1..Len(gGroups) : RLe(YDiff(FirstRunOf(k), j), gTol) }
            IN  /\ near # {}
                /\ LineOf(j) \in near
                /\ \A k \in near : LineOf(j) <= k

\* C5 witness: a line of two runs has been merged while a third run, within
\* tolerance of one of them but not of the line's first run, is in another line.
C5_Witness ==
    /\ gDone
    /\ Len(gRuns) = 3
    /\ \E i, j \in 1..Len(gRuns) :
          /\ RLe(YDiff(i, j), gTol)
          /\ LineOf(i) # LineOf(j)
    /\ \E k \in 1..Len(gGroups) : Len(gGroups[k]) = 2

\* indices of `members`, stably sorted by ascending x of their runs
RECURSIVE InsertByX(_, _)
InsertByX(sorted, i) ==
    IF sorted = <<>> THEN <<i>>
    ELSE IF RLt(gRuns[i].x, gRuns[sorted[1]].x) THEN <<i>> \o sorted
    ELSE <<sorted[1]>> \o InsertByX(Tail(sorted), i)

RECURSIVE SortByX(_)
SortByX(members) ==
    IF members = <<>> THEN <<>>
    ELSE InsertByX(SortByX(SubSeq(members, 1, Len(members) - 1)), members[Len(members)])

\* C6: the text of each merged line is the texts of its runs in ascending x
\* order, joined with one space, whatever the extraction order was.
C6_JoinedLeftToRight ==
    gDone =>
        \A k \in 1..Len(gOut) :
            LET byX == SortByX(gGroups[k])
            IN  gOut[k].text = JoinWithSpace([m \in 1..Len(byX) |-> gRuns[byX[m]].text])

LineRuns(k) == { gRuns[i] : i \in SeqToSet(gGroups[k]) }

\* C7: each merged line has x = the minimum x of its runs, width = the maximum
\* x + width of its runs minus that x, and y = the mean of its runs' y; "Full
\* Name" at (40, 700) and "Doe, John" at (120, 702) with tolerance 5 merge
\* into one line from x = 40 to x = 120 + the second run's width.
C7_MergedBox ==
    gDone =>
        /\ \A k \in 1..Len(gOut) :
              /\ \E r \in LineRuns(k) : gOut[k].x = r.x
              /\ \A r \in LineRuns(k) : RLe(gOut[k].x, r.x)
              /\ \E r \in LineRuns(k) : RAdd(gOut[k].x, gOut[k].width) = RAdd(r.x, r.width)
              /\ \A r \in LineRuns(k) : RLe(RAdd(r.x, r.width), RAdd(gOut[k].x, gOut[k].width))
              /\ RMul(gOut[k].y, Num(Len(gGroups[k]))) =
                     SeqSum([m \in 1..Len(gGroups[k]) |-> gRuns[gGroups[k][m]].y])
        /\ ( /\ Len(gRuns) = 2
             /\ {gRuns[1], gRuns[2]} =
                    { Run("Full Name", 40, 700, 50, 10, "Helvetica", 10),
                      Run("Doe, John", 120, 702, 45, 12, "Times", 12) }
             /\ gTol = Num(5) )
           => /\ Len(gOut) = 1
              /\ gOut[1].x = Num(40)
              /\ RAdd(gOut[1].x, gOut[1].width) = Num(120 + 45)
              /\ gOut[1].y = Num(701)

\* C7 witness: the two runs of the scenario were merged with tolerance 5, the
\* run further right first.
C7_Witness ==
    /\ gDone
    /\ gTol = Num(5)
    /\ gRuns = << Run("Doe, John", 120, 702, 45, 12, "Times", 12),
                  Run("Full Name", 40, 700, 50, 10, "Helvetica", 10) >>
    /\ Len(gOut) = 1

\* C8: the height of each merged line is the maximum height of its runs.
C8_MaxHeight ==
    gDone =>
        \A k \in 1..Len(gOut) :
            /\ \E r \in LineRuns(k) : gOut[k].height = r.height
            /\ \A r \in LineRuns(k) : RLe(r.height, gOut[k].height)

-----------------------------------------------------------------------------
(* wrapText and measureTextWidth (fontLoader)                               *)
(* A text is a sequence of characters.  The canvas text metrics are an      *)
(* additive width per character.                                            *)

CharWidth(c) == IF c = "b" THEN 3 ELSE IF c = "a" THEN 2 ELSE 1

\* context.measureText(text).width
RECURSIVE MeasureText(_)
MeasureText(text) ==
    IF text = <<>> THEN 0 ELSE CharWidth(text[1]) + MeasureText(Tail(text))

\* measureTextWidth: 0 when there is no 2D context
measureTextWidth(text, context) == IF ~context THEN 0 ELSE MeasureText(text)

\* String.prototype.split(' ')
RECURSIVE SplitFrom(_, _, _, _)
SplitFrom(text, i, piece, pieces) ==
    IF i > Len(text) THEN Append(pieces, piece)
    ELSE IF text[i] = " "
         THEN SplitFrom(text, i + 1, <<>>, Append(pieces, piece))
         ELSE SplitFrom(text, i + 1, Append(piece, text[i]), pieces)

SplitOnSpace(text) == SplitFrom(text, 1, <<>>, <<>>)

\* the for loop over words, then the final push
RECURSIVE WrapFrom_DropWord(_, _, _, _, _)
WrapFrom_DropWord(words, maxWidth, i, lines, currentLine) ==
    IF i > Len(words)
    THEN IF currentLine # <<>> THEN Append(lines, currentLine) ELSE lines
    ELSE LET word == words[i]
             testLine == IF currentLine # <<>> THEN currentLine \o <<" ">> \o word ELSE word
         IN  IF MeasureText(testLine) > maxWidth /\ currentLine # <<>>
             THEN WrapFrom_DropWord(words, maxWidth, i + 1, Append(lines, currentLine), <<>>)
             ELSE WrapFrom_DropWord(words, maxWidth, i + 1, lines, testLine)

RECURSIVE WrapFrom_MeasureWord(_, _, _, _, _)
WrapFrom_MeasureWord(words, maxWidth, i, lines, currentLine) ==
    IF i > Len(words)
    THEN IF currentLine # <<>> THEN Append(lines, currentLine) ELSE lines
    ELSE LET word == words[i]
             testLine == IF currentLine # <<>> THEN currentLine \o <<" ">> \o word ELSE word
         IN  IF MeasureText(word) > maxWidth /\ currentLine # <<>>
             THEN WrapFrom_MeasureWord(words, maxWidth, i + 1, Append(lines, currentLine), word)
             ELSE WrapFrom_MeasureWord(words, maxWidth, i + 1, lines, testLine)

RECURSIVE WrapFrom(_, _, _, _, _)
WrapFrom(words, maxWidth, i, lines, currentLine) ==
    IF i > Len(words)
    THEN IF currentLine # <<>> THEN Append(lines, currentLine) ELSE lines
    ELSE LET word == words[i]
             testLine == IF currentLine # <<>> THEN currentLine \o <<" ">> \o word ELSE word
         IN  IF MeasureText(testLine) > maxWidth /\ currentLine # <<>>
             THEN WrapFrom(words, maxWidth, i + 1, Append(lines, currentLine), word)
             ELSE WrapFrom(words, maxWidth, i + 1, lines, testLine)

wrapText_DropWord(text, maxWidth, context) ==
    IF ~context THEN <<text>>
    ELSE WrapFrom_DropWord(SplitOnSpace(text), maxWidth, 1, <<>>, <<>>)

wrapText_MeasureWord(text, maxWidth, context) ==
    IF ~context THEN <<text>>
    ELSE WrapFrom_MeasureWord(SplitOnSpace(text), maxWidth, 1, <<>>, <<>>)

wrapText(text, maxWidth, context) ==
    IF ~context THEN <<text>>
    ELSE WrapFrom(SplitOnSpace(text), maxWidth, 1, <<>>, <<>>)

MaxTextLen == 5

Alphabet == {"a", "b", " "}

MaxWidthPool == {0, 3, 5, 6}

WInit ==
    /\ libIdle
    /\ ccIdle /\ exIdle /\ gIdle /\ appInitial /\ rnIdle /\ batIdle /\ edIdle
    /\ wText \in SeqsUpTo(Alphabet, MaxTextLen)
    /\ wMaxWidth \in MaxWidthPool
    /\ wContext \in BOOLEAN
    /\ wLines = <<>>
    /\ wDone = FALSE

WrapText ==
    /\ ~wDone
    /\ wLines' = wrapText(wText, wMaxWidth, wContext)
    /\ wDone' = TRUE
    /\ UNCHANGED <<wText, wMaxWidth, wContext, NotW>>

\* the field is drawn again with another box width
ChangeMaxWidth ==
    /\ wDone
    /\ \E m \in MaxWidthPool : m # wMaxWidth /\ wMaxWidth' = m
    /\ wLines' = <<>>
    /\ wDone' = FALSE
    /\ UNCHANGED <<wText, wContext, NotW>>

WNext == WrapText \/ ChangeMaxWidth

SpecWrap == WInit /\ [][WNext]_vars

\* lines.join(' ')
RECURSIVE JoinLines(_)
JoinLines(lines) ==
    IF lines = <<>> THEN <<>>
    ELSE IF Len(lines) = 1 THEN lines[1]
    ELSE lines[1] \o <<" ">> \o JoinLines(Tail(lines))

IsNonEmpty(word) == word # <<>>

\* C9 as stated: the lines joined with single spaces have exactly the words
\* of the text (its pieces between single spaces), in order.
C9_WordsReproduced ==
    wDone => SplitOnSpace(JoinLines(wLines)) = SplitOnSpace(wText)

\* C9 as amended: the lines joined with single spaces have the non-empty
\* words of the text in their original order, none lost, added, reordered or
\* split; when no word of the text is empty, they have exactly its words.
C9_NonEmptyWordsReproduced ==
    wDone =>
        /\ SelectSeq(SplitOnSpace(JoinLines(wLines)), IsNonEmpty) =
               SelectSeq(SplitOnSpace(wText), IsNonEmpty)
        /\ (\A i \in 1..Len(SplitOnSpace(wText)) : SplitOnSpace(wText)[i] # <<>>)
               => SplitOnSpace(JoinLines(wLines)) = SplitOnSpace(wText)

\* C9 witness: a text of three words, with a leading space, was wrapped into
\* more than one line.
C9_Witness ==
    /\ wDone
    /\ wContext
    /\ Len(wLines) >= 2
    /\ wText = <<" ", "a", " ", "b", "a">>

\* C10: a returned line is wider than maxWidth only if it is exactly one
\* word, and a word wider than maxWidth is a line by itself.
C10_OnlySingleWordOverflows ==
    wDone =>
        /\ \A l \in 1..Len(wLines) :
              \/ measureTextWidth(wLines[l], wContext) <= wMaxWidth
              \/ Len(SplitOnSpace(wLines[l])) = 1
        /\ \A i \in 1..Len(SplitOnSpace(wText)) :
              measureTextWidth(SplitOnSpace(wText)[i], wContext) > wMaxWidth
                  => \E l \in 1..Len(wLines) : wLines[l] = SplitOnSpace(wText)[i]

\* C10 witness: a word wider than maxWidth sits alone on a line that
\* overflows, after a line that fits.
C10_Witness ==
    /\ wDone
    /\ wContext
    /\ wMaxWidth = 5
    /\ wText = <<"a", " ", "b", "b">>
    /\ wLines = << <<"a">>, <<"b", "b">> >>
    /\ MeasureText(wLines[2]) > wMaxWidth

-----------------------------------------------------------------------------
(* formReducer (FormContext), createDefaultField / createNewTemplate        *)
(* (templateSaver), and the FieldMapper component                           *)

Fields == IF currentTemplate = NoTemplate THEN <<>> ELSE currentTemplate.fields

\* generateFieldId: `field_${Date.now()}_${random}`, an id no field has yet
FieldIdSeq == <<"field_1", "field_2", "field_3", "field_4">>

generateFieldId ==
    FieldIdSeq[CHOOSE n \in 1..Len(FieldIdSeq) :
        /\ \A k \in 1..Len(Fields) : Fields[k].id # FieldIdSeq[n]
        /\ \A m \in 1..(n - 1) : \E k \in 1..Len(Fields) : Fields[k].id = FieldIdSeq[m]]

createDefaultField(x, y) ==
    [id |-> generateFieldId, label |-> "New Field", type |-> "text",
     x |-> x, y |-> y, fontSize |-> Num(12), maxWidth |-> Num(200), alignment |-> "left"]

createNewTemplate(name, width, height) ==
    [id |-> "template_1", templateName |-> name,
     pdfDimensions |-> [width |-> Num(width), height |-> Num(height)],
     backgroundImage |-> "", fields |-> <<>>]

\* case 'UPDATE_TEMPLATE' with payload {pdfDimensions, backgroundImage}
ReduceUpdateTemplate(template, payload) ==
    IF template = NoTemplate THEN template
    ELSE [template EXCEPT !.pdfDimensions = payload.pdfDimensions,
                          !.backgroundImage = payload.backgroundImage]

\* case 'ADD_FIELD'
ReduceAddField_Prepend(template, field) ==
    IF template = NoTemplate THEN template
    ELSE [template EXCEPT !.fields = <<field>> \o @]

ReduceAddField(template, field) ==
    IF template = NoTemplate THEN template
    ELSE [template EXCEPT !.fields = Append(@, field)]

\* case 'UPDATE_FIELD' with updates {x, y}
ReduceUpdateField(template, id, x, y) ==
    IF template = NoTemplate THEN template
    ELSE [template EXCEPT !.fields =
             [k \in 1..Len(@) |->
                 IF @[k].id = id THEN [@[k] EXCEPT !.x = x, !.y = y] ELSE @[k]]]

\* case 'SET_ZOOM' with payload {level}
ReduceSetZoom(z, level) == [z EXCEPT !.level = level]

\* container.clientWidth / clientHeight of the canvas's parent element
Container == [clientWidth |-> 640, clientHeight |-> 500]

\* the useEffect body: Math.min(scaleX, scaleY, 1)
InitialScale(template) ==
    LET containerWidth == Num(Container.clientWidth - 40)
        containerHeight == Num(Container.clientHeight - 100)
        scaleX == RDiv(containerWidth, template.pdfDimensions.width)
        scaleY == RDiv(containerHeight, template.pdfDimensions.height)
    IN  RMin(RMin(scaleX, scaleY), Num(1))

\* the canvas-area div is rendered (and canvasRef set) only with a background
CanvasRendered == currentTemplate # NoTemplate /\ currentTemplate.backgroundImage # ""

ScreenToDisplay_Unscaled(offset, s) == offset

\* (event.clientX - rect.left) / scale, data.x / scale
ScreenToDisplay(offset, s) == RDiv(offset, s)

\* Draggable position={{ x: field.x * scale, y: field.y * scale }}
MarkerPosition(field, s) == Pt(RMul(field.x, s), RMul(field.y, s))

ZoomInScale(prev) == RMin(RAdd(prev, Rat(1, 10)), Num(3))

ZoomOutScale(prev) == RMax(RSub(prev, Rat(1, 10)), Rat(1, 10))

MaxFields == 1

UploadPool ==
    { [pdfDimensions |-> [width |-> Num(600), height |-> Num(800)], backgroundImage |-> "page.png"],
      [pdfDimensions |-> [width |-> Num(400), height |-> Num(400)], backgroundImage |-> "photo.png"] }

ClickOffsets == { Pt(Num(30), Num(60)) }

DragOffsets == { Pt(Num(90), Num(45)) }

ZoomLevels == { Num(1), Rat(3, 2) }

MapperInit == libIdle /\ ccIdle /\ exIdle /\ gIdle /\ wIdle /\ appInitial /\ rnIdle /\ batIdle /\ edIdle

\* AppContent's mount effect: setTemplate(createNewTemplate('Untitled Form', 794, 1123))
MountApp ==
    /\ currentTemplate = NoTemplate
    /\ currentTemplate' = createNewTemplate("Untitled Form", 794, 1123)
    /\ formData' = <<>>
    /\ selectedFieldId' = NoField
    /\ effectDue' = TRUE
    /\ UNCHANGED <<zoom, scale, lastPointer, ccVars, NotApp>>

\* a background upload that succeeded: updateTemplate({pdfDimensions, backgroundImage})
UploadBackground ==
    /\ ~effectDue
    /\ currentTemplate # NoTemplate
    /\ \E u \in UploadPool :
          /\ u.backgroundImage # currentTemplate.backgroundImage
          /\ currentTemplate' = ReduceUpdateTemplate(currentTemplate, u)
    /\ effectDue' = TRUE
    /\ UNCHANGED <<formData, selectedFieldId, zoom, scale, lastPointer, ccVars, NotApp>>

\* FieldMapper's useEffect on [template]
InitialScaleEffect ==
    /\ effectDue
    /\ effectDue' = FALSE
    /\ scale' = IF CanvasRendered THEN InitialScale(currentTemplate) ELSE scale
    /\ UNCHANGED <<currentTemplate, formData, selectedFieldId, zoom, lastPointer, ccVars, NotApp>>

HandleCanvasClick(p) ==
    /\ ~effectDue
    /\ CanvasRendered
    /\ Len(Fields) < MaxFields
    /\ LET newField == createDefaultField(ScreenToDisplay(p.x, scale), ScreenToDisplay(p.y, scale))
       IN  /\ currentTemplate' = ReduceAddField(currentTemplate, newField)
           /\ selectedFieldId' = newField.id
           /\ lastPointer' = [kind |-> "click", id |-> newField.id, at |-> p, scale |-> scale]
    /\ effectDue' = TRUE
    /\ UNCHANGED <<formData, zoom, scale, ccVars, NotApp>>

CanvasClick == \E p \in ClickOffsets : HandleCanvasClick(p)

HandleFieldDrag(fieldId, data) ==
    /\ ~effectDue
    /\ CanvasRendered
    /\ currentTemplate' = ReduceUpdateField(currentTemplate, fieldId,
                              ScreenToDisplay(data.x, scale), ScreenToDisplay(data.y, scale))
    /\ lastPointer' = [kind |-> "drag", id |-> fieldId, at |-> data, scale |-> scale]
    /\ effectDue' = TRUE
    /\ UNCHANGED <<formData, selectedFieldId, zoom, scale, ccVars, NotApp>>

FieldDrag ==
    \E k \in 1..Len(Fields), data \in DragOffsets : HandleFieldDrag(Fields[k].id, data)

HandleZoomIn_Rescale ==
    /\ ~effectDue
    /\ CanvasRendered
    /\ scale' = ZoomInScale(scale)
    /\ currentTemplate' = [currentTemplate EXCEPT !.fields =
          [k \in 1..Len(@) |->
              [@[k] EXCEPT !.x = RMul(@, RDiv(scale', scale)), !.y = RMul(@, RDiv(scale', scale))]]]
    /\ UNCHANGED <<formData, selectedFieldId, zoom, effectDue, lastPointer, ccVars, NotApp>>

HandleZoomIn ==
    /\ ~effectDue
    /\ CanvasRendered
    /\ scale' = ZoomInScale(scale)
    /\ UNCHANGED <<currentTemplate, formData, selectedFieldId, zoom, effectDue, lastPointer, ccVars, NotApp>>

HandleZoomOut ==
    /\ ~effectDue
    /\ CanvasRendered
    /\ scale' = ZoomOutScale(scale)
    /\ UNCHANGED <<currentTemplate, formData, selectedFieldId, zoom, effectDue, lastPointer, ccVars, NotApp>>

HandleZoomReset ==
    /\ ~effectDue
    /\ CanvasRendered
    /\ scale' = Num(1)
    /\ UNCHANGED <<currentTemplate, formData, selectedFieldId, zoom, effectDue, lastPointer, ccVars, NotApp>>

\* dispatch({type: 'SET_ZOOM', payload: {level}})
DispatchSetZoom ==
    /\ ~effectDue
    /\ \E level \in ZoomLevels : level # zoom.level /\ zoom' = ReduceSetZoom(zoom, level)
    /\ UNCHANGED <<currentTemplate, formData, selectedFieldId, scale, effectDue, lastPointer, ccVars, NotApp>>

MapperNext ==
    \/ MountApp
    \/ UploadBackground
    \/ InitialScaleEffect
    \/ CanvasClick
    \/ FieldDrag
    \/ HandleZoomIn
    \/ HandleZoomOut
    \/ HandleZoomReset
    \/ DispatchSetZoom
    \/ CallUpdateScale

SpecMapper == MapperInit /\ [][MapperNext]_vars

\* the stored position of every field of the current template, in order
FieldPositions == [k \in 1..Len(Fields) |-> [id |-> Fields[k].id, x |-> Fields[k].x, y |-> Fields[k].y]]

\* C2: no zoom operation changes a stored field position: a step that changes
\* the mapper's scale (zoom in, zoom out, reset), the reducer's zoom (SET_ZOOM)
\* or the converter's scale (updateScale) leaves every field's stored (x, y)
\* as it was.
C2_ZoomKeepsPositions ==
    [][(scale' # scale \/ zoom' # zoom \/ cc'.scale # cc.scale)
          => FieldPositions' = FieldPositions]_vars

\* C2 witness: a field is stored, and the mapper's scale, the reducer's zoom
\* level and the converter's scale have all been moved away from 1.
C2_Witness ==
    /\ Len(Fields) >= 1
    /\ ~effectDue
    /\ scale = Rat(6, 5)
    /\ zoom.level = Rat(3, 2)
    /\ cc.scale = Rat(1, 2)

PointedField == CHOOSE k \in 1..Len(Fields) : Fields[k].id = lastPointer.id

\* the field of the latest click or drag is stored at its screen offset
\* divided by the zoom of that moment, and is drawn back there under that zoom
PointerStoredInDisplaySpace ==
    lastPointer.kind \in {"click", "drag"} =>
        LET f == Fields[PointedField]
            z == lastPointer.scale
        IN  /\ \E k \in 1..Len(Fields) : Fields[k].id = lastPointer.id
            /\ f.x = RDiv(lastPointer.at.x, z)
            /\ f.y = RDiv(lastPointer.at.y, z)
            /\ MarkerPosition(f, z) = lastPointer.at

\* the render that follows a click or drag draws the marker at the pointer
MarkerBackAtPointer ==
    lastPointer' # lastPointer =>
        /\ scale = lastPointer'.scale
        /\ MarkerPosition(Fields'[PointedField'], scale') = lastPointer'.at

-----------------------------------------------------------------------------
(* PDFPreview.renderFieldsOnCanvas and usePDFGeneration.generatePDF         *)
(* A bound value is a tagged record; v is String(value).                    *)

Undefined == [t |-> "undefined", v |-> "undefined"]
Null == [t |-> "null", v |-> "null"]
Str(s) == [t |-> "string", v |-> s]
Bool(b) == [t |-> "boolean", v |-> IF b THEN "true" ELSE "false"]

\* formData[field.id]
ValueOf(data, id) == IF id \in DOMAIN data THEN data[id] ELSE Undefined

\* value === undefined || value === null || value === ''
IsSkipped_KeepEmpty(value) == value = Undefined \/ value = Null

IsSkipped(value) == value = Undefined \/ value = Null \/ value = Str("")

\* String(value)
String(value) == value.v

\* value === true || value === 'true' || value === '1'
IsChecked_Truthy(value) == value # Bool(FALSE)

IsChecked(value) == value = Bool(TRUE) \/ value = Str("true") \/ value = Str("1")

\* field.maxWidth as a condition: set and not 0
HasMaxWidth(field) == "maxWidth" \in DOMAIN field /\ field.maxWidth # Num(0)

\* field.multiline as a condition
IsMultiline(field) == "multiline" \in DOMAIN field /\ field.multiline

\* field.alignment || 'left'
AlignmentOrLeft(field) == IF field.alignment = "" THEN "left" ELSE field.alignment

\* the characters of a string value, for wrapText
Chars(s) ==
    CASE s = "a b" -> <<"a", " ", "b">>
      [] s = "1" -> <<"1">>
      [] s = "0" -> <<"0">>
      [] s = "true" -> <<"t", "r", "u", "e">>
      [] s = "false" -> <<"f", "a", "l", "s", "e">>
      [] OTHER -> <<>>

\* metrics.width > maxWidth for a whole-pixel width
Floor(r) == r[1] \div r[2]

\* the lines of a multiline field
WrappedLines(field, valueStr) == wrapText(Chars(valueStr), Floor(field.maxWidth), TRUE)

\* PDFPreview: "Calculate x position based on alignment"
PreviewX(field) ==
    IF field.alignment = "center" /\ HasMaxWidth(field)
    THEN RAdd(field.x, RDiv(field.maxWidth, Num(2)))
    ELSE IF field.alignment = "right" /\ HasMaxWidth(field)
    THEN RAdd(field.x, field.maxWidth)
    ELSE field.x

\* the context.fillText calls renderFieldsOnCanvas makes for one field
PreviewFieldDraws(field, value) ==
    LET x == PreviewX(field)
        valueStr == String(value)
        lineHeight == RMul(field.fontSize, Rat(12, 10))
        lines == WrappedLines(field, valueStr)
    IN  IF IsSkipped(value) THEN <<>>
        ELSE IF field.type = "checkbox"
        THEN IF IsChecked(value)
             THEN << [id |-> field.id, text |-> "checkmark", line |-> 0, piece |-> <<>>,
                      x |-> x, y |-> RAdd(field.y, field.fontSize),
                      align |-> field.alignment] >>
             ELSE <<>>
        ELSE IF HasMaxWidth(field) /\ IsMultiline(field)
        THEN [i \in 1..Len(lines) |->
                 [id |-> field.id, text |-> valueStr, line |-> i - 1, piece |-> lines[i],
                  x |-> x,
                  y |-> RAdd(RAdd(field.y, field.fontSize), RMul(Num(i - 1), lineHeight)),
                  align |-> field.alignment]]
        ELSE << [id |-> field.id, text |-> valueStr, line |-> 0, piece |-> <<>>,
                 x |-> x, y |-> RAdd(field.y, field.fontSize),
                 align |-> field.alignment] >>

\* fields.forEach of renderFieldsOnCanvas
RECURSIVE PreviewDrawsFrom(_, _, _)
PreviewDrawsFrom(fields, data, k) ==
    IF k > Len(fields) THEN <<>>
    ELSE PreviewFieldDraws(fields[k], ValueOf(data, fields[k].id))
            \o PreviewDrawsFrom(fields, data, k + 1)

renderFieldsOnCanvas(fields, data) == PreviewDrawsFrom(fields, data, 1)

\* "px to mm"
PxToMm == Rat(264583, 1000000)

\* converter.canvasToPdf(field.x, field.y).x * 0.264583
PdfX(template, field) ==
    LET converter == NewConverter(template.pdfDimensions, template.pdfDimensions)
    IN  RMul(canvasToPdf(converter, field.x, field.y).x, PxToMm)

\* converter.canvasToPdf(field.x, field.y).y * 0.264583
PdfY(template, field) ==
    LET converter == NewConverter(template.pdfDimensions, template.pdfDimensions)
    IN  RMul(canvasToPdf(converter, field.x, field.y).y, PxToMm)

\* the pdf.text calls generatePDF makes for one field that is not skipped
PdfFieldDraws(template, field, value) ==
    LET xMm == PdfX(template, field)
        yMm == PdfY(template, field)
        valueStr == String(value)
        lineHeight == RMul(RMul(field.fontSize, Rat(12, 10)), PxToMm)
        lines == WrappedLines(field, valueStr)
    IN  IF field.type = "checkbox"
        THEN IF IsChecked(value)
             THEN << [id |-> field.id, text |-> "checkmark", line |-> 0, piece |-> <<>>,
                      x |-> xMm, y |-> yMm, align |-> "left"] >>
             ELSE <<>>
        ELSE IF HasMaxWidth(field) /\ IsMultiline(field)
        THEN [i \in 1..Len(lines) |->
                 [id |-> field.id, text |-> valueStr, line |-> i - 1, piece |-> lines[i],
                  x |-> xMm, y |-> RAdd(yMm, RMul(Num(i - 1), lineHeight)),
                  align |-> AlignmentOrLeft(field)]]
        ELSE << [id |-> field.id, text |-> valueStr, line |-> 0, piece |-> <<>>,
                 x |-> xMm, y |-> yMm, align |-> AlignmentOrLeft(field)] >>

\* 40 + (index / template.fields.length) * 50
FieldProgress_CountDown(index, length) ==
    RSub(Num(90), RMul(RDiv(Num(index), Num(length)), Num(50)))

FieldProgress(index, length) ==
    RAdd(Num(40), RMul(RDiv(Num(index), Num(length)), Num(50)))

MaxRenderFields == 2

\* a 120-wide field box at x = 50 in each alignment, a checkbox, a wrapping
\* text area, and a field without maxWidth
RenderFieldPool ==
    { [id |-> "left", type |-> "text", x |-> Num(50), y |-> Num(100), fontSize |-> Num(12),
       maxWidth |-> Num(120), alignment |-> "left"],
      [id |-> "center", type |-> "text", x |-> Num(50), y |-> Num(100), fontSize |-> Num(12),
       maxWidth |-> Num(120), alignment |-> "center"],
      [id |-> "right", type |-> "text", x |-> Num(50), y |-> Num(100), fontSize |-> Num(12),
       maxWidth |-> Num(120), alignment |-> "right"],
      [id |-> "check", type |-> "checkbox", x |-> Num(20), y |-> Num(40), fontSize |-> Num(12),
       maxWidth |-> Num(200), alignment |-> "left"],
      [id |-> "area", type |-> "text", x |-> Num(50), y |-> Num(200), fontSize |-> Num(10),
       maxWidth |-> Num(5), alignment |-> "center", multiline |-> TRUE],
      [id |-> "free", type |-> "text", x |-> Num(50), y |-> Num(300), fontSize |-> Num(12),
       alignment |-> "center"] }

CheckboxValues ==
    { Undefined, Null, Str(""), Str("1"), Str("0"), Str("true"), Bool(TRUE), Bool(FALSE),
      [t |-> "number", v |-> "1"] }

TextValues == { Undefined, Null, Str(""), Str("a b") }

ValuesFor(field) == IF field.type = "checkbox" THEN CheckboxValues ELSE TextValues

FormatPool == { "pdf", "png" }

RenderTemplates ==
    { [id |-> "template_1", templateName |-> "Form",
       pdfDimensions |-> [width |-> Num(600), height |-> Num(800)],
       backgroundImage |-> "page.png", fields |-> fs] :
         fs \in { s \in SeqsUpTo(RenderFieldPool, MaxRenderFields) :
                     \A i, j \in 1..Len(s) : s[i].id = s[j].id => i = j } }

FieldIdsOf(fields) == { fields[k].id : k \in 1..Len(fields) }

RenderInit ==
    /\ libIdle
    /\ ccIdle /\ exIdle /\ gIdle /\ wIdle /\ appInitial /\ batIdle /\ edIdle
    /\ rTemplate \in RenderTemplates
    /\ rData \in { d \in [FieldIdsOf(rTemplate.fields) -> CheckboxValues \cup TextValues] :
                      \A k \in 1..Len(rTemplate.fields) :
                          d[rTemplate.fields[k].id] \in ValuesFor(rTemplate.fields[k]) }
    /\ pvDraws = <<>>
    /\ pvDone = FALSE
    /\ gen = GenIdle

\* PDFPreview's effect on [template, fields, formData]
RenderPreview ==
    /\ ~pvDone
    /\ pvDraws' = renderFieldsOnCanvas(rTemplate.fields, rData)
    /\ pvDone' = TRUE
    /\ UNCHANGED <<rTemplate, rData, gen, NotRn>>

\* generatePDF is called: setIsGenerating(true), setProgress(0), setError(null)
GenStart ==
    /\ gen.pc \in {"idle", "done"}
    /\ \E format \in FormatPool :
          gen' = [GenIdle EXCEPT !.pc = "started", !.format = format, !.isGenerating = TRUE]
    /\ UNCHANGED <<rTemplate, rData, pvDraws, pvDone, NotRn>>

\* new jsPDF(...), setProgress(20)
GenCreateDocument ==
    /\ gen.pc = "started"
    /\ gen' = [gen EXCEPT !.pc = "document", !.progress = Num(20)]
    /\ UNCHANGED <<rTemplate, rData, pvDraws, pvDone, NotRn>>

\* pdf.addImage in its own try/catch, setProgress(40), new CoordinateConverter
GenAddBackground ==
    /\ gen.pc = "document"
    /\ gen' = [gen EXCEPT !.pc = "fields", !.progress = Num(40), !.index = 1]
    /\ UNCHANGED <<rTemplate, rData, pvDraws, pvDone, NotRn>>

GenField == rTemplate.fields[gen.index]

GenValue == ValueOf(rData, GenField.id)

\* one forEach callback that returns at once: the value is undefined, null or ''
GenSkipField ==
    /\ gen.pc = "fields"
    /\ gen.index <= Len(rTemplate.fields)
    /\ IsSkipped(GenValue)
    /\ gen' = [gen EXCEPT !.index = @ + 1]
    /\ UNCHANGED <<rTemplate, rData, pvDraws, pvDone, NotRn>>

\* one forEach callback that draws its field and reports progress
GenDrawField ==
    /\ gen.pc = "fields"
    /\ gen.index <= Len(rTemplate.fields)
    /\ ~IsSkipped(GenValue)
    /\ gen' = [gen EXCEPT !.draws = @ \o PdfFieldDraws(rTemplate, GenField, GenValue),
                          !.progress = FieldProgress(gen.index - 1, Len(rTemplate.fields)),
                          !.index = @ + 1]
    /\ UNCHANGED <<rTemplate, rData, pvDraws, pvDone, NotRn>>

\* a jsPDF call of one forEach callback throws: the exception leaves forEach
\* and reaches the catch of generatePDF (setError, return null, finally)
GenDrawFieldThrows ==
    /\ gen.pc = "fields"
    /\ gen.index <= Len(rTemplate.fields)
    /\ ~IsSkipped(GenValue)
    /\ gen' = [gen EXCEPT !.pc = "done", !.threw = gen.index, !.error = TRUE,
                          !.result = "null", !.isGenerating = FALSE]
    /\ UNCHANGED <<rTemplate, rData, pvDraws, pvDone, NotRn>>

\* forEach has returned: setProgress(95)
GenFieldsDone ==
    /\ gen.pc = "fields"
    /\ gen.index > Len(rTemplate.fields)
    /\ gen' = [gen EXCEPT !.pc = "output", !.progress = Num(95)]
    /\ UNCHANGED <<rTemplate, rData, pvDraws, pvDone, NotRn>>

\* the blob is produced: setProgress(100), return blob, finally
GenOutputBlob ==
    /\ gen.pc = "output"
    /\ gen' = [gen EXCEPT !.pc = "done", !.progress = Num(100), !.result = "blob",
                          !.isGenerating = FALSE]
    /\ UNCHANGED <<rTemplate, rData, pvDraws, pvDone, NotRn>>

\* an image format whose pdfToCanvas or canvasToBlob promise rejects: catch, finally
GenOutputRejects ==
    /\ gen.pc = "output"
    /\ gen.format # "pdf"
    /\ gen' = [gen EXCEPT !.pc = "done", !.error = TRUE, !.result = "null",
                          !.isGenerating = FALSE]
    /\ UNCHANGED <<rTemplate, rData, pvDraws, pvDone, NotRn>>

RenderNext ==
    \/ RenderPreview
    \/ GenStart
    \/ GenCreateDocument
    \/ GenAddBackground
    \/ GenSkipField
    \/ GenDrawField
    \/ GenDrawFieldThrows
    \/ GenFieldsDone
    \/ GenOutputBlob
    \/ GenOutputRejects

SpecRender == RenderInit /\ [][RenderNext]_vars

-----------------------------------------------------------------------------
(* Claims about the live preview and generatePDF                            *)

RenderFields == rTemplate.fields

DrawsOf(draws, id) == { i \in 1..Len(draws) : draws[i].id = id }

FieldOf(id) == RenderFields[CHOOSE k \in 1..Len(RenderFields) : RenderFields[k].id = id]

\* the forEach callback of field k has run to its end in the generatePDF call
GenProcessed(k) ==
    /\ gen.pc \in {"fields", "output", "done"}
    /\ gen.index > k
    /\ gen.threw # k

\* left -> x, center -> x + maxWidth / 2, right -> x + maxWidth
AlignmentAnchor(field) ==
    CASE field.alignment = "center" -> RAdd(field.x, RDiv(field.maxWidth, Num(2)))
      [] field.alignment = "right" -> RAdd(field.x, field.maxWidth)
      [] OTHER -> field.x

IsBoxedText(field) == field.type # "checkbox" /\ "maxWidth" \in DOMAIN field

\* C11: every text of a text field with maxWidth is drawn at the alignment
\* anchor of the field box (x for left, x + maxWidth / 2 for center,
\* x + maxWidth for right) with the renderer's native alignment set to the
\* field's alignment, by the live preview (in px) and by generatePDF (in mm).
C11_DrawnAtAnchor ==
    /\ \A i \in 1..Len(pvDraws) :
          IsBoxedText(FieldOf(pvDraws[i].id)) =>
              /\ pvDraws[i].x = AlignmentAnchor(FieldOf(pvDraws[i].id))
              /\ pvDraws[i].align = FieldOf(pvDraws[i].id).alignment
    /\ \A i \in 1..Len(gen.draws) :
          IsBoxedText(FieldOf(gen.draws[i].id)) =>
              /\ gen.draws[i].x = RMul(AlignmentAnchor(FieldOf(gen.draws[i].id)), PxToMm)
              /\ gen.draws[i].align = FieldOf(gen.draws[i].id).alignment

EmptyBound(value) == value \in { Undefined, Null, Str("") }

\* C12: a field bound to undefined, null or '' causes no draw call and no
\* error in the live preview and in generatePDF, and the fields after it are
\* still rendered: once a renderer is through, every text field with another
\* value has been drawn.
C12_EmptySkipped ==
    \A k \in 1..Len(RenderFields) :
        LET field == RenderFields[k]
            value == ValueOf(rData, field.id)
        IN  /\ EmptyBound(value) =>
                  /\ DrawsOf(pvDraws, field.id) = {}
                  /\ DrawsOf(gen.draws, field.id) = {}
                  /\ gen.threw # k
            /\ (~EmptyBound(value) /\ field.type # "checkbox") =>
                  /\ pvDone => DrawsOf(pvDraws, field.id) # {}
                  /\ gen.pc = "output" => DrawsOf(gen.draws, field.id) # {}
                  /\ gen.result = "blob" => DrawsOf(gen.draws, field.id) # {}

\* C12 witness: the first field is bound to '', the second to a text; the
\* preview and a generatePDF call are through and drew the second field only.
C12_Witness ==
    /\ Len(RenderFields) = 2
    /\ ValueOf(rData, RenderFields[1].id) = Str("")
    /\ ValueOf(rData, RenderFields[2].id) = Str("a b")
    /\ pvDone
    /\ gen.result = "blob"
    /\ DrawsOf(pvDraws, RenderFields[2].id) # {}
    /\ DrawsOf(gen.draws, RenderFields[2].id) # {}

MarkDue(value) == value \in { Bool(TRUE), Str("true"), Str("1") }

\* C13: the mark of a checkbox field is drawn if and only if the bound value
\* is true, "true" or "1" (nothing for "0", false, or a skipped undefined),
\* and the live preview and generatePDF decide alike for every value.
C13_CheckboxMark ==
    \A k \in 1..Len(RenderFields) :
        LET field == RenderFields[k]
            value == ValueOf(rData, field.id)
        IN  field.type = "checkbox" =>
                /\ pvDone => (DrawsOf(pvDraws, field.id) # {} <=> MarkDue(value))
                /\ GenProcessed(k) => (DrawsOf(gen.draws, field.id) # {} <=> MarkDue(value))
                /\ (pvDone /\ GenProcessed(k)) =>
                      (DrawsOf(pvDraws, field.id) # {} <=> DrawsOf(gen.draws, field.id) # {})
                /\ ~MarkDue(value) =>
                      DrawsOf(pvDraws, field.id) = {} /\ DrawsOf(gen.draws, field.id) = {}

\* C13 witness: a checkbox bound to "1" has its mark in the preview and in
\* the finished PDF.
C13_Witness ==
    /\ \E k \in 1..Len(RenderFields) :
          /\ RenderFields[k].type = "checkbox"
          /\ ValueOf(rData, RenderFields[k].id) = Str("1")
          /\ DrawsOf(pvDraws, RenderFields[k].id) # {}
          /\ DrawsOf(gen.draws, RenderFields[k].id) # {}
    /\ pvDone
    /\ gen.result = "blob"

\* C15: a field whose drawing fails during generatePDF is the only one lost:
\* the call still returns an artifact and every later field with a non-empty
\* bound value is drawn.
C15_FailureConfined ==
    (gen.pc = "done" /\ gen.threw # 0) =>
        /\ gen.result = "blob"
        /\ \A k \in (gen.threw + 1)..Len(RenderFields) :
              (~EmptyBound(ValueOf(rData, RenderFields[k].id))
                  /\ RenderFields[k].type # "checkbox")
                  => DrawsOf(gen.draws, RenderFields[k].id) # {}

ProgressInRange == RLe(Num(0), gen.progress) /\ RLe(gen.progress, Num(100))

ProgressAtEnds ==
    /\ gen.pc = "started" => gen.progress = Num(0)
    /\ gen.pc = "done" => (gen.progress = Num(100) <=> gen.result = "blob")
    /\ (gen.pc = "done" /\ gen.result = "null") => RLt(gen.progress, Num(100))

ProgressGrows == gen'.pc # "started" => RLe(gen.progress, gen'.progress)

\* C16: during one generatePDF call progress starts at 0, never decreases,
\* stays within 0..100, is 100 at the end exactly when an artifact was
\* returned, and is below 100 at the end of a failed call.
C16_Progress ==
    /\ [](ProgressInRange /\ ProgressAtEnds)
    /\ [][ProgressGrows]_vars

\* C16 witness: a call that failed while drawing its second field, with the
\* first field's progress report standing.
C16_Witness ==
    /\ gen.pc = "done"
    /\ gen.result = "null"
    /\ gen.threw = 2
    /\ gen.progress = Num(40)
    /\ Len(gen.draws) > 0

-----------------------------------------------------------------------------
(* usePDFGeneration.batchExport                                             *)
(* The nested generatePDF call never throws: it returns a blob, or null     *)
(* after its own catch.  saveAs may throw.                                  *)

MaxRecords == 3

\* ((i + 1) / records.length) * 100
BatchProgress(i, length) == RMul(RDiv(Num(i + 1), Num(length)), Num(100))

BatchInit ==
    /\ libIdle
    /\ ccIdle /\ exIdle /\ gIdle /\ wIdle /\ appInitial /\ rnIdle /\ edIdle
    /\ \E n \in 0..MaxRecords :
          bat = [BatIdle EXCEPT !.records = [k \in 1..n |-> [record |-> k]]]

\* batchExport is called: success = 0, failed = 0, setIsGenerating(true), setProgress(0)
BatStart ==
    /\ bat.pc = "idle"
    /\ bat' = [bat EXCEPT !.pc = "loop", !.isGenerating = TRUE, !.progress = Num(0)]
    /\ UNCHANGED NotBat

\* await generatePDF(...) yields a blob: the nested call ended with setProgress(100)
BatGenerateBlob ==
    /\ bat.pc = "loop"
    /\ bat.i < Len(bat.records)
    /\ bat' = [bat EXCEPT !.pc = "save", !.progress = Num(100), !.isGenerating = FALSE]
    /\ UNCHANGED NotBat

\* await generatePDF(...) yields null: failed++, setProgress, next record
BatGenerateNull ==
    /\ bat.pc = "loop"
    /\ bat.i < Len(bat.records)
    /\ bat' = [bat EXCEPT !.failed = @ + 1,
                          !.outcomes = Append(@, "null"),
                          !.isGenerating = FALSE,
                          !.progress = BatchProgress(bat.i, Len(bat.records)),
                          !.i = @ + 1]
    /\ UNCHANGED NotBat

BatSaveThrows_Abort ==
    /\ bat.pc = "save"
    /\ bat' = [bat EXCEPT !.pc = "done", !.failed = @ + 1]
    /\ UNCHANGED NotBat

\* saveAs throws: catch, failed++, setProgress, next record
BatSaveThrows ==
    /\ bat.pc = "save"
    /\ bat' = [bat EXCEPT !.pc = "loop",
                          !.failed = @ + 1,
                          !.outcomes = Append(@, "unsaved"),
                          !.progress = BatchProgress(bat.i, Len(bat.records)),
                          !.i = @ + 1]
    /\ UNCHANGED NotBat

\* saveAs(blob, `${filename}_${i + 1}.pdf`), success++, setProgress, next record
BatSave ==
    /\ bat.pc = "save"
    /\ bat' = [bat EXCEPT !.pc = "loop",
                          !.success = @ + 1,
                          !.outcomes = Append(@, "saved"),
                          !.saved = Append(@, bat.i + 1),
                          !.progress = BatchProgress(bat.i, Len(bat.records)),
                          !.i = @ + 1]
    /\ UNCHANGED NotBat

\* the loop has ended: setIsGenerating(false), return { success, failed }
BatFinish ==
    /\ bat.pc = "loop"
    /\ bat.i = Len(bat.records)
    /\ bat' = [bat EXCEPT !.pc = "done", !.isGenerating = FALSE]
    /\ UNCHANGED NotBat

BatchNext ==
    \/ BatStart
    \/ BatGenerateBlob
    \/ BatGenerateNull
    \/ BatSaveThrows
    \/ BatSave
    \/ BatFinish

SpecBatch == BatchInit /\ [][BatchNext]_vars

CountOf(seq, v) == Cardinality({ k \in 1..Len(seq) : seq[k] = v })

\* C17: batchExport goes through every record whatever fails on the way: when
\* it returns, every record has an outcome, success + failed is the number of
\* records, and success is the number of records generated and saved.
C17_BatchCounts ==
    /\ bat.success + bat.failed = Len(bat.outcomes)
    /\ bat.success = CountOf(bat.outcomes, "saved")
    /\ bat.success = Len(bat.saved)
    /\ bat.pc = "done" =>
          /\ Len(bat.outcomes) = Len(bat.records)
          /\ bat.success + bat.failed = Len(bat.records)

\* C17 witness: a batch of three records has returned; the first record's
\* generation failed, the second's save threw, the third was saved.
C17_Witness ==
    /\ bat.pc = "done"
    /\ bat.outcomes = <<"null", "unsaved", "saved">>
    /\ bat.success = 1
    /\ bat.failed = 2

-----------------------------------------------------------------------------
(* formReducer under the editor's dispatches, TemplateSaver.importTemplate  *)
(* and validateTemplate, and App's handleImportTemplate                     *)
(* A parsed JSON value is a record with kind "object", "null" or            *)
(* "malformed" (JSON.parse throws); the value under `fields` is tagged with *)
(* isArray, the value under `pdfDimensions` may be null.                    *)

\* { ...field, ...updates }
Spread(field, updates) ==
    [k \in DOMAIN field \cup DOMAIN updates |->
        IF k \in DOMAIN updates THEN updates[k] ELSE field[k]]

\* case 'SET_TEMPLATE'
ReduceSetTemplate(template) ==
    [currentTemplate |-> template, formData |-> <<>>, selectedFieldId |-> NoField]

\* case 'UPDATE_FIELD'
ReduceMergeField(template, id, updates) ==
    IF template = NoTemplate THEN template
    ELSE [template EXCEPT !.fields =
             [k \in 1..Len(@) |-> IF @[k].id = id THEN Spread(@[k], updates) ELSE @[k]]]

RECURSIVE FilterOut(_, _)
FilterOut(fields, id) ==
    IF fields = <<>> THEN <<>>
    ELSE IF fields[1].id # id THEN <<fields[1]>> \o FilterOut(Tail(fields), id)
    ELSE FilterOut(Tail(fields), id)

\* case 'DELETE_FIELD': the template part
ReduceDeleteField(template, id) ==
    IF template = NoTemplate THEN template
    ELSE [template EXCEPT !.fields = FilterOut(@, id)]

\* case 'DELETE_FIELD': the selectedFieldId part
ReduceDeleteSelection(selected, id) == IF selected = id THEN NoField ELSE selected

\* case 'UPDATE_FORM_DATA'
ReduceUpdateFormData(data, fieldId, value) ==
    [k \in DOMAIN data \cup {fieldId} |-> IF k = fieldId THEN value ELSE data[k]]

\* !x for a number that may be missing
Falsy(object, key) == key \notin DOMAIN object \/ object[key] = Num(0)

RequiredFields == <<"id", "templateName", "pdfDimensions", "fields">>

\* validateTemplate: TRUE, FALSE, or "throws" when pdfDimensions is null
validateTemplate(template) ==
    IF template.kind # "object" THEN "false"
    ELSE IF ~(\A n \in 1..Len(RequiredFields) : RequiredFields[n] \in DOMAIN template)
    THEN "false"
    ELSE IF "isNull" \in DOMAIN template.pdfDimensions THEN "throws"
    ELSE IF Falsy(template.pdfDimensions, "width") \/ Falsy(template.pdfDimensions, "height")
    THEN "false"
    ELSE IF ~template.fields.isArray THEN "false"
    ELSE "true"

\* JSON.parse(content) as Template, for a value validateTemplate accepted
AsTemplate(doc) ==
    [k \in DOMAIN doc \ {"kind"} |-> IF k = "fields" THEN doc.fields.items ELSE doc[k]]

\* importTemplate: how the promise settles
importTemplate(doc, readFails) ==
    IF readFails THEN [resolved |-> FALSE, error |-> "Failed to read template file"]
    ELSE IF doc.kind = "malformed"
    THEN [resolved |-> FALSE, error |-> "Failed to parse template file"]
    ELSE IF validateTemplate(doc) = "throws"
    THEN [resolved |-> FALSE, error |-> "Failed to parse template file"]
    ELSE IF validateTemplate(doc) = "false"
    THEN [resolved |-> FALSE, error |-> "Invalid template format"]
    ELSE [resolved |-> TRUE, template |-> AsTemplate(doc)]

MaxEditFields == 2

ImportedField(id, x) ==
    [id |-> id, label |-> "Imported", type |-> "text", x |-> Num(x), y |-> Num(20),
     fontSize |-> Num(12), maxWidth |-> Num(100), alignment |-> "left"]

Page == [width |-> Num(600), height |-> Num(800)]

JsonArray(items) == [isArray |-> TRUE, items |-> items]

\* the files offered to the import dialog
JsonPool ==
    << [kind |-> "object", id |-> "t_ab", templateName |-> "Two fields", pdfDimensions |-> Page,
        backgroundImage |-> "", fields |-> JsonArray(<<ImportedField("a", 10), ImportedField("b", 30)>>)],
       [kind |-> "object", id |-> "t_aa", templateName |-> "Same id twice", pdfDimensions |-> Page,
        backgroundImage |-> "", fields |-> JsonArray(<<ImportedField("a", 10), ImportedField("a", 30)>>)],
       [kind |-> "object", id |-> "t_neg", templateName |-> "Negative width",
        pdfDimensions |-> [width |-> Num(-600), height |-> Num(800)],
        backgroundImage |-> "", fields |-> JsonArray(<<>>)],
       [kind |-> "object", id |-> "t_nodims", templateName |-> "No pdfDimensions",
        backgroundImage |-> "", fields |-> JsonArray(<<>>)],
       [kind |-> "object", templateName |-> "No id", pdfDimensions |-> Page,
        backgroundImage |-> "", fields |-> JsonArray(<<>>)],
       [kind |-> "object", id |-> "t_noname", pdfDimensions |-> Page,
        backgroundImage |-> "", fields |-> JsonArray(<<>>)],
       [kind |-> "object", id |-> "t_nofields", templateName |-> "No fields", pdfDimensions |-> Page,
        backgroundImage |-> ""],
       [kind |-> "object", id |-> "t_w0", templateName |-> "Zero width",
        pdfDimensions |-> [width |-> Num(0), height |-> Num(800)],
        backgroundImage |-> "", fields |-> JsonArray(<<>>)],
       [kind |-> "object", id |-> "t_noh", templateName |-> "No height",
        pdfDimensions |-> [width |-> Num(600)],
        backgroundImage |-> "", fields |-> JsonArray(<<>>)],
       [kind |-> "object", id |-> "t_nulldims", templateName |-> "Null pdfDimensions",
        pdfDimensions |-> [isNull |-> TRUE],
        backgroundImage |-> "", fields |-> JsonArray(<<>>)],
       [kind |-> "object", id |-> "t_str", templateName |-> "fields is a string", pdfDimensions |-> Page,
        backgroundImage |-> "", fields |-> [isArray |-> FALSE]],
       [kind |-> "null"],
       [kind |-> "malformed"] >>

FieldUpdates == { [label |-> "Renamed"] }

EditorInit == libIdle /\ ccIdle /\ exIdle /\ gIdle /\ wIdle /\ appInitial /\ rnIdle /\ batIdle /\ edIdle

\* AppContent's mount effect: setTemplate(createNewTemplate('Untitled Form', 794, 1123))
EdMount ==
    /\ currentTemplate = NoTemplate
    /\ LET next == ReduceSetTemplate(createNewTemplate("Untitled Form", 794, 1123))
       IN  /\ currentTemplate' = next.currentTemplate
           /\ formData' = next.formData
           /\ selectedFieldId' = next.selectedFieldId
    /\ lastAction' = [type |-> "SET_TEMPLATE", from |-> "mount"]
    /\ UNCHANGED NotEd

\* handleImportTemplate for file n of the pool: setTemplate when importTemplate
\* resolves, only a notification when it rejects
HandleImportTemplate_ClearFirst(n, readFails) ==
    LET settled == importTemplate(JsonPool[n], readFails)
        next == ReduceSetTemplate(IF settled.resolved THEN settled.template ELSE NoTemplate)
    IN  /\ currentTemplate # NoTemplate
        /\ currentTemplate' = next.currentTemplate
        /\ formData' = next.formData
        /\ selectedFieldId' = next.selectedFieldId
        /\ lastAction' = [type |-> IF settled.resolved THEN "SET_TEMPLATE" ELSE "IMPORT_REJECTED",
                          from |-> "import", file |-> n]
        /\ UNCHANGED NotEd

HandleImportTemplate(n, readFails) ==
    LET settled == importTemplate(JsonPool[n], readFails)
        next == ReduceSetTemplate(settled.template)
    IN  /\ currentTemplate # NoTemplate
        /\ IF settled.resolved
           THEN /\ currentTemplate' = next.currentTemplate
                /\ formData' = next.formData
                /\ selectedFieldId' = next.selectedFieldId
                /\ lastAction' = [type |-> "SET_TEMPLATE", from |-> "import", file |-> n]
           ELSE /\ UNCHANGED <<currentTemplate, formData, selectedFieldId>>
                /\ lastAction' = [type |-> "IMPORT_REJECTED", from |-> "import", file |-> n]
        /\ UNCHANGED NotEd

ImportTemplate == \E n \in 1..Len(JsonPool), readFails \in BOOLEAN : HandleImportTemplate(n, readFails)

\* a background upload: dispatch UPDATE_TEMPLATE {pdfDimensions, backgroundImage}
EdUpdateTemplate ==
    /\ currentTemplate # NoTemplate
    /\ \E u \in UploadPool :
          /\ u.backgroundImage = "page.png"
          /\ currentTemplate' = ReduceUpdateTemplate(currentTemplate, u)
    /\ lastAction' = [type |-> "UPDATE_TEMPLATE"]
    /\ UNCHANGED <<formData, selectedFieldId, NotEd>>

\* a canvas click: dispatch ADD_FIELD createDefaultField(x, y)
EdAddField ==
    /\ currentTemplate # NoTemplate
    /\ Len(Fields) < MaxEditFields
    /\ LET newField == createDefaultField(Num(30), Num(60))
       IN  /\ currentTemplate' = ReduceAddField(currentTemplate, newField)
           /\ selectedFieldId' = newField.id
           /\ lastAction' = [type |-> "ADD_FIELD", field |-> newField]
    /\ UNCHANGED <<formData, NotEd>>

\* a property edit: dispatch UPDATE_FIELD {id, updates}
EdUpdateField ==
    /\ \E k \in 1..Len(Fields), updates \in FieldUpdates :
          /\ currentTemplate' = ReduceMergeField(currentTemplate, Fields[k].id, updates)
          /\ lastAction' = [type |-> "UPDATE_FIELD", id |-> Fields[k].id]
    /\ UNCHANGED <<formData, selectedFieldId, NotEd>>

\* the delete button, confirmed: dispatch DELETE_FIELD id
EdDeleteField ==
    /\ \E k \in 1..Len(Fields) :
          /\ currentTemplate' = ReduceDeleteField(currentTemplate, Fields[k].id)
          /\ selectedFieldId' = ReduceDeleteSelection(selectedFieldId, Fields[k].id)
          /\ lastAction' = [type |-> "DELETE_FIELD", id |-> Fields[k].id]
    /\ UNCHANGED <<formData, NotEd>>

\* a value typed into the data tab: dispatch UPDATE_FORM_DATA {fieldId, value}
EdUpdateFormData ==
    /\ \E k \in 1..Len(Fields) :
          /\ Fields[k].id \notin DOMAIN formData
          /\ formData' = ReduceUpdateFormData(formData, Fields[k].id, Str("a b"))
    /\ lastAction' = [type |-> "UPDATE_FORM_DATA"]
    /\ UNCHANGED <<currentTemplate, selectedFieldId, NotEd>>

EditorNext ==
    \/ EdMount
    \/ ImportTemplate
    \/ EdUpdateTemplate
    \/ EdAddField
    \/ EdUpdateField
    \/ EdDeleteField
    \/ EdUpdateFormData

SpecEditor == EditorInit /\ [][EditorNext]_vars

\* the pdf.text calls of a whole generatePDF call in which nothing throws
RECURSIVE PdfDrawsFrom(_, _, _)
PdfDrawsFrom(template, data, k) ==
    IF k > Len(template.fields) THEN <<>>
    ELSE (IF IsSkipped(ValueOf(data, template.fields[k].id)) THEN <<>>
          ELSE PdfFieldDraws(template, template.fields[k], ValueOf(data, template.fields[k].id)))
            \o PdfDrawsFrom(template, data, k + 1)

IdsOf(seq) == [k \in 1..Len(seq) |-> seq[k].id]

\* s can be obtained from t by leaving elements out
RECURSIVE IsSubsequence(_, _)
IsSubsequence(s, t) ==
    IF s = <<>> THEN TRUE
    ELSE IF t = <<>> THEN FALSE
    ELSE IF s[1] = t[1] THEN IsSubsequence(Tail(s), Tail(t))
    ELSE IsSubsequence(s, Tail(t))

Occurrences(seq, id) == Cardinality({ k \in 1..Len(seq) : seq[k] = id })

\* what ADD_FIELD, UPDATE_FIELD and DELETE_FIELD do to the order of the fields
OrderKeptByStep ==
    /\ lastAction'.type = "ADD_FIELD" =>
          Fields' = Append(Fields, lastAction'.field)
    /\ lastAction'.type = "UPDATE_FIELD" =>
          /\ IdsOf(Fields') = IdsOf(Fields)
          /\ \A k \in 1..Len(Fields) : Fields[k].id # lastAction'.id => Fields'[k] = Fields[k]
    /\ lastAction'.type = "DELETE_FIELD" =>
          /\ IsSubsequence(Fields', Fields)
          /\ Occurrences(IdsOf(Fields'), lastAction'.id) = 0
          /\ Len(Fields') = Len(Fields) - Occurrences(IdsOf(Fields), lastAction'.id)

\* the fields that have a bound value to draw, in array order
RECURSIVE FilterBound(_, _)
FilterBound(fields, data) ==
    IF fields = <<>> THEN <<>>
    ELSE (IF EmptyBound(ValueOf(data, fields[1].id)) THEN <<>> ELSE <<fields[1]>>)
            \o FilterBound(Tail(fields), data)

\* both renderers draw the bound fields in array order
DrawnInArrayOrder ==
    currentTemplate # NoTemplate =>
        /\ IdsOf(renderFieldsOnCanvas(Fields, formData))
              = IdsOf(FilterBound(Fields, formData))
        /\ IdsOf(PdfDrawsFrom(currentTemplate, formData, 1))
              = IdsOf(FilterBound(Fields, formData))

ImportedFile == JsonPool[lastAction.file]

\* C18: importTemplate resolves only for JSON that has the keys id,
\* templateName, pdfDimensions and fields, whose pdfDimensions width and
\* height are both positive, and whose fields value is a list; any other
\* JSON is rejected.
C18_OnlyValidImported ==
    (lastAction.type = "SET_TEMPLATE" /\ lastAction.from = "import") =>
        /\ ImportedFile.kind = "object"
        /\ {"id", "templateName", "pdfDimensions", "fields"} \subseteq DOMAIN ImportedFile
        /\ {"width", "height"} \subseteq DOMAIN ImportedFile.pdfDimensions
        /\ RLt(Num(0), ImportedFile.pdfDimensions.width)
        /\ RLt(Num(0), ImportedFile.pdfDimensions.height)
        /\ ImportedFile.fields.isArray

\* C19: a rejected import mutates nothing: the current template, the form
\* data and the selected field are what they were before the attempt.
C19_RejectedImportKeepsState ==
    [][lastAction'.type = "IMPORT_REJECTED"
          => UNCHANGED <<currentTemplate, formData, selectedFieldId>>]_vars

\* C19 witness: JSON without pdfDimensions was rejected while a template
\* with its own field, a bound value and a selection was being edited.
C19_Witness ==
    /\ lastAction.type = "IMPORT_REJECTED"
    /\ "pdfDimensions" \notin DOMAIN ImportedFile
    /\ Len(Fields) = 1
    /\ selectedFieldId = Fields[1].id
    /\ Fields[1].id \in DOMAIN formData

\* C20: the ids of the fields of the current template are pairwise distinct
\* in every reachable state.
C20_DistinctFieldIds ==
    \A i, j \in 1..Len(Fields) : Fields[i].id = Fields[j].id => i = j

\* the fields a replaced template starts with: those of the imported file,
\* none after a background upload
FieldsBroughtIn ==
    IF lastAction'.type = "SET_TEMPLATE" THEN JsonPool[lastAction'.file].fields.items ELSE <<>>

\* C21: a background upload and a template import replace the current
\* template wholesale: after the step the template has none of the previous
\* template's fields (only those the new file brings) and no form data is
\* left.
C21_ReplacedWholesale ==
    [][(lastAction'.type = "UPDATE_TEMPLATE"
          \/ (lastAction'.type = "SET_TEMPLATE" /\ lastAction'.from = "import"))
          => (Fields' = FieldsBroughtIn /\ DOMAIN formData' = {})]_vars

-----------------------------------------------------------------------------
(* CoordinateConverter.pdfToScreen, screenToPdf and convert                 *)

pdfToScreen_Direct(c, x, y) ==
    LET scaleX == RDiv(c.canvasDimensions.width, c.pdfDimensions.width)
        scaleY == RDiv(c.canvasDimensions.height, c.pdfDimensions.height)
    IN  Pt(RMul(RMul(x, scaleX), c.scale), RMul(RMul(y, scaleY), c.scale))

pdfToScreen(c, x, y) ==
    LET canvas == pdfToCanvas(c, x, y)
    IN  canvasToScreen(c, canvas.x, canvas.y)

screenToPdf(c, x, y) ==
    LET canvas == screenToCanvas(c, x, y)
    IN  canvasToPdf(c, canvas.x, canvas.y)

convert(c, x, y, from, to) ==
    IF from = to THEN Pt(x, y)
    ELSE LET canvasCoords ==
                 CASE from = "pdf" -> pdfToCanvas(c, x, y)
                   [] from = "screen" -> screenToCanvas(c, x, y)
                   [] OTHER -> Pt(x, y)
         IN  CASE to = "pdf" -> canvasToPdf(c, canvasCoords.x, canvasCoords.y)
               [] to = "screen" -> canvasToScreen(c, canvasCoords.x, canvasCoords.y)
               [] OTHER -> canvasCoords

CoordinateSystems == { "pdf", "canvas", "screen" }

CallPdfToScreen ==
    /\ Len(ccHist) < MaxCalls
    /\ ccCur' = pdfToScreen(cc, ccCur.x, ccCur.y)
    /\ ccHist' = Append(ccHist, [op |-> "pdfToScreen", from |-> "pdf", to |-> "screen"])
    /\ UNCHANGED <<cc, ccOrigin, NotCc>>

CallScreenToPdf ==
    /\ Len(ccHist) < MaxCalls
    /\ ccCur' = screenToPdf(cc, ccCur.x, ccCur.y)
    /\ ccHist' = Append(ccHist, [op |-> "screenToPdf", from |-> "screen", to |-> "pdf"])
    /\ UNCHANGED <<cc, ccOrigin, NotCc>>

CallConvert ==
    /\ Len(ccHist) < MaxCalls
    /\ \E from \in CoordinateSystems, to \in CoordinateSystems :
          /\ ccCur' = convert(cc, ccCur.x, ccCur.y, from, to)
          /\ ccHist' = Append(ccHist, [op |-> "convert", from |-> from, to |-> to])
    /\ UNCHANGED <<cc, ccOrigin, NotCc>>

RouteNext ==
    \/ CallPdfToScreen
    \/ CallScreenToPdf
    \/ CallConvert
    \/ CallUpdateScale

SpecRoute == ConvInit /\ [][RouteNext]_vars

\* from one system to another by way of canvas space, with the four basic
\* conversions only
ViaCanvas(c, p, from, to) ==
    LET onCanvas == CASE from = "pdf" -> pdfToCanvas(c, p.x, p.y)
                      [] from = "screen" -> screenToCanvas(c, p.x, p.y)
                      [] OTHER -> p
    IN  CASE to = "pdf" -> canvasToPdf(c, onCanvas.x, onCanvas.y)
          [] to = "screen" -> canvasToScreen(c, onCanvas.x, onCanvas.y)
          [] OTHER -> onCanvas

LatestCall == ccHist'[Len(ccHist')]

\* C25: pdfToScreen is canvasToScreen after pdfToCanvas, screenToPdf is
\* canvasToPdf after screenToCanvas, convert(from, to) gives the result of
\* the route through canvas space for distinct systems and gives (x, y) back
\* when from = to.
C25_RoutedThroughCanvas ==
    [][ccHist' # ccHist =>
          /\ LatestCall.from # LatestCall.to => ccCur' = ViaCanvas(cc, ccCur, LatestCall.from, LatestCall.to)
          /\ LatestCall.from = LatestCall.to => ccCur' = ccCur]_vars

\* C25 witness: between different dimensions and under a scale other than 1,
\* pdfToScreen and then convert(screen -> pdf) have been called on a point
\* the flip and the scale really move.
C25_Witness ==
    /\ Len(ccHist) = 2
    /\ ccHist[1].op = "pdfToScreen"
    /\ ccHist[2] = [op |-> "convert", from |-> "screen", to |-> "pdf"]
    /\ cc.pdfDimensions # cc.canvasDimensions
    /\ cc.scale = Rat(1, 2)
    /\ ccOrigin = Pt(Rat(5, 2), Num(3))
    /\ ccCur = ccOrigin

-----------------------------------------------------------------------------
(* The field mapper's zoom range                                            *)

\* C27: the field mapper's zoom level (its scale) is between 50% and 200% in
\* every reachable state.
C27_ZoomWithinRange == RLe(Rat(1, 2), scale) /\ RLe(scale, Num(2))

-----------------------------------------------------------------------------
(* groupNearbyText as a partition of its input                              *)

\* the number of times run i of the input is a member of the merged line k
TimesIn(i, k) == Cardinality({ m \in 1..Len(gGroups[k]) : gGroups[k][m] = i })

\* C29: groupNearbyText partitions its input: every input run is a member of
\* exactly one merged line and occurs there once, the text of a merged line is
\* made of the texts of its members, and the merged lines are emitted in the
\* order of their first run in the input.
C29_Partition ==
    gDone =>
        /\ Len(gOut) = Len(gGroups)
        /\ \A i \in 1..Len(gRuns) :
              /\ Cardinality({ k \in 1..Len(gGroups) : TimesIn(i, k) > 0 }) = 1
              /\ \A k \in 1..Len(gGroups) : TimesIn(i, k) <= 1
        /\ \A k \in 1..Len(gGroups) :
              /\ gGroups[k] # <<>>
              /\ SeqToSet(gGroups[k]) \subseteq 1..Len(gRuns)
              /\ \A m \in 2..Len(gGroups[k]) : FirstRunOf(k) < gGroups[k][m]
              /\ gOut[k].text =
                     JoinWithSpace([m \in 1..Len(gGroups[k]) |-> gRuns[gGroups[k][m]].text])
        /\ \A k \in 1..(Len(gGroups) - 1) : FirstRunOf(k) < FirstRunOf(k + 1)

\* C29 witness: three runs were grouped into two lines, the first line made of
\* the first and the third run, the second line of the run between them.
C29_Witness ==
    /\ gDone
    /\ Len(gRuns) = 3
    /\ gGroups = << <<1, 3>>, <<2>> >>
    /\ Len(gOut) = 2

-----------------------------------------------------------------------------
(* The progress value over a whole batchExport run                          *)

\* C28: from the start of a batchExport run to its end the progress value of
\* the hook never decreases.
C28_BatchProgressMonotone ==
    [][bat.pc # "idle" => RLe(bat.progress, bat'.progress)]_vars

-----------------------------------------------------------------------------
(* TemplateSaver over localStorage                                          *)
(* localStorage is a function from keys to JSON texts.  setItem may throw   *)
(* (the quota is exceeded); getItem and removeItem do not.  A JSON text is  *)
(* the record [json |-> value].                                             *)

STORAGE_KEY_PREFIX == "pdf_form_template_"
TEMPLATES_LIST_KEY == "pdf_form_templates_list"

JsonStringify(value) == [json |-> value]
JsonParse(text) == text.json

\* localStorage.getItem: null for a key that is not stored
GetItem(items, key) ==
    IF key \in DOMAIN items THEN [isNull |-> FALSE, text |-> items[key]] ELSE [isNull |-> TRUE]

SetItem(items, key, text) ==
    [k \in DOMAIN items \cup {key} |-> IF k = key THEN text ELSE items[k]]

RemoveItem(items, key) == [k \in DOMAIN items \ {key} |-> items[k]]

getAllTemplates(items) ==
    LET listData == GetItem(items, TEMPLATES_LIST_KEY)
    IN  IF listData.isNull THEN <<>> ELSE JsonParse(listData.text)

\* list.findIndex(t => t.id === id), 1-based; 0 for -1
FindIndex(list, id) ==
    IF \E k \in 1..Len(list) : list[k].id = id
    THEN CHOOSE k \in 1..Len(list) :
            list[k].id = id /\ \A j \in 1..(k - 1) : list[j].id # id
    ELSE 0

\* addToTemplatesList; setItemThrows: the list's setItem throws, which the
\* catch logs
addToTemplatesList(items, id, name, setItemThrows) ==
    LET list == getAllTemplates(items)
        existingIndex == FindIndex(list, id)
        updated == IF existingIndex >= 1
                   THEN [list EXCEPT ![existingIndex].name = name]
                   ELSE Append(list, [id |-> id, name |-> name])
    IN  IF setItemThrows THEN items
        ELSE SetItem(items, TEMPLATES_LIST_KEY, JsonStringify(updated))

\* list.filter(t => t.id !== id)
RECURSIVE FilterOutId(_, _)
FilterOutId(list, id) ==
    IF list = <<>> THEN <<>>
    ELSE IF list[1].id # id THEN <<list[1]>> \o FilterOutId(Tail(list), id)
    ELSE FilterOutId(Tail(list), id)

removeFromTemplatesList(items, id, setItemThrows) ==
    LET filteredList == FilterOutId(getAllTemplates(items), id)
    IN  IF setItemThrows THEN items
        ELSE SetItem(items, TEMPLATES_LIST_KEY, JsonStringify(filteredList))

\* saveTemplate; fails: which setItem throws, "template", "list" or "none".
\* The call throws when the template's setItem does.
saveTemplate(items, template, fails) ==
    LET templateKey == STORAGE_KEY_PREFIX \o template.id
    IN  IF fails = "template" THEN [items |-> items, threw |-> TRUE]
        ELSE [items |-> addToTemplatesList(SetItem(items, templateKey, JsonStringify(template)),
                                           template.id, template.templateName, fails = "list"),
              threw |-> FALSE]

loadTemplate(items, templateId) ==
    LET templateData == GetItem(items, STORAGE_KEY_PREFIX \o templateId)
    IN  IF templateData.isNull THEN [isNull |-> TRUE]
        ELSE [isNull |-> FALSE, template |-> JsonParse(templateData.text)]

\* deleteTemplate returns true
deleteTemplate(items, templateId, setItemThrows) ==
    removeFromTemplatesList(RemoveItem(items, STORAGE_KEY_PREFIX \o templateId),
                            templateId, setItemThrows)

MaxSaverCalls == 3

TemplateIds == {"t1", "t2"}

SavedTemplates ==
    [id : TemplateIds, templateName : {"Form A", "Form B"}, version : {"1.0"}]

SaverInit ==
    /\ ccIdle /\ exIdle /\ gIdle /\ wIdle /\ appInitial /\ rnIdle /\ batIdle /\ edIdle
    /\ fmIdle /\ detIdle /\ upIdle
    /\ saver = SaverIdle

\* templateSaver.saveTemplate(template) returns
CallSaveTemplate ==
    /\ Len(saver.calls) < MaxSaverCalls
    /\ \E t \in SavedTemplates, fails \in {"none", "list"} :
          saver' = [items |-> saveTemplate(saver.items, t, fails).items,
                    calls |-> Append(saver.calls, [op |-> "save", id |-> t.id, template |-> t])]
    /\ UNCHANGED NotSaver

\* templateSaver.saveTemplate(template) throws
CallSaveTemplateThrows ==
    /\ Len(saver.calls) < MaxSaverCalls
    /\ \E t \in SavedTemplates :
          /\ saveTemplate(saver.items, t, "template").threw
          /\ saver' = [items |-> saveTemplate(saver.items, t, "template").items,
                       calls |-> Append(saver.calls, [op |-> "saveThrew", id |-> t.id, template |-> t])]
    /\ UNCHANGED NotSaver

\* templateSaver.deleteTemplate(templateId)
CallDeleteTemplate ==
    /\ Len(saver.calls) < MaxSaverCalls
    /\ \E id \in TemplateIds, setItemThrows \in BOOLEAN :
          saver' = [items |-> deleteTemplate(saver.items, id, setItemThrows),
                    calls |-> Append(saver.calls, [op |-> "delete", id |-> id, template |-> [isNull |-> TRUE]])]
    /\ UNCHANGED NotSaver

SaverNext == CallSaveTemplate \/ CallSaveTemplateThrows \/ CallDeleteTemplate

SpecSaver == SaverInit /\ [][SaverNext]_vars

\* the calls about `id` that returned, in order
RECURSIVE ReturnedCallsOn(_, _)
ReturnedCallsOn(calls, id) ==
    IF calls = <<>> THEN <<>>
    ELSE IF calls[1].id = id /\ calls[1].op # "saveThrew"
         THEN <<calls[1]>> \o ReturnedCallsOn(Tail(calls), id)
         ELSE ReturnedCallsOn(Tail(calls), id)

\* `id` was saved and not deleted afterwards
SavedNow(id) ==
    LET on == ReturnedCallsOn(saver.calls, id)
    IN  on # <<>> /\ on[Len(on)].op = "save"

LastSaved(id) ==
    LET on == ReturnedCallsOn(saver.calls, id)
    IN  on[Len(on)].template

\* C26: after any sequence of saveTemplate and deleteTemplate calls,
\* getAllTemplates lists exactly the ids saved and not deleted afterwards,
\* each once and under the name of its last save, and loadTemplate returns
\* the last template saved under a listed id and null for every other id.
C26_ListMatchesStore ==
    LET list == getAllTemplates(saver.items)
    IN  /\ \A id \in TemplateIds :
              Cardinality({ k \in 1..Len(list) : list[k].id = id }) =
                  IF SavedNow(id) THEN 1 ELSE 0
        /\ \A k \in 1..Len(list) :
              /\ list[k].id \in TemplateIds
              /\ SavedNow(list[k].id) => list[k].name = LastSaved(list[k].id).templateName
              /\ SavedNow(list[k].id) =>
                     loadTemplate(saver.items, list[k].id) =
                         [isNull |-> FALSE, template |-> LastSaved(list[k].id)]
        /\ \A id \in TemplateIds :
              (\A k \in 1..Len(list) : list[k].id # id) => loadTemplate(saver.items, id).isNull

-----------------------------------------------------------------------------
(* BackgroundUpload: handleFileSelect, handlePDFUpload, handleImageUpload   *)
(* Every selected file starts a task that runs handleFileSelect for it; the *)
(* tasks interleave at their awaits and callbacks.  A file is given by its  *)
(* name, its MIME type and the size of its first page or of its picture.    *)

MaxUploads == 2

UploadFile(name, type, width, height) ==
    [name |-> name, type |-> type, width |-> width, height |-> height]

UploadFiles ==
    { UploadFile("a.pdf", "application/pdf", 600, 800),
      UploadFile("b.pdf", "application/pdf", 600, 800),
      UploadFile("c.png", "image/png", 300, 200),
      UploadFile("d.txt", "text/plain", 0, 0) }

\* file.type === 'application/pdf'
IsPDFFile(file) == file.type = "application/pdf"

\* file.type.startsWith('image/')
IsImageFile(file) == file.type \in {"image/png", "image/jpeg"}

\* viewport.width and height of page 1 at scale 1.0, or img.width and height
DimensionsOf(file) == [width |-> file.width, height |-> file.height]

\* canvas.toDataURL('image/png') of the rendered page, or the reader's data URL
DataUrlOf(file) == "data:" \o file.name

\* createNewTemplate('Untitled Form', 794, 1123), as App creates it on mount
UntitledForm ==
    [isNull |-> FALSE, templateName |-> "Untitled Form",
     pdfDimensions |-> [width |-> 794, height |-> 1123], backgroundImage |-> ""]

\* case 'UPDATE_TEMPLATE' with payload { pdfDimensions, backgroundImage }
ReduceUpdateBackground(template, pdfDimensions, backgroundImage) ==
    IF template.isNull THEN template
    ELSE [template EXCEPT !.pdfDimensions = pdfDimensions, !.backgroundImage = backgroundImage]

UploadTask(file, pc) ==
    [file |-> file, pc |-> pc, dimensions |-> [isNull |-> TRUE], image |-> ""]

UploadInit ==
    /\ ccIdle /\ exIdle /\ gIdle /\ wIdle /\ appInitial /\ rnIdle /\ batIdle /\ edIdle
    /\ saverIdle /\ fmIdle /\ detIdle
    /\ \E t \in {[isNull |-> TRUE], UntitledForm} : up = [UpIdle EXCEPT !.template = t]

\* handleFileSelect with a file that is neither a PDF nor an image
UpSelectOther ==
    /\ Len(up.tasks) < MaxUploads
    /\ \E file \in UploadFiles :
          /\ ~IsPDFFile(file) /\ ~IsImageFile(file)
          /\ up' = [up EXCEPT !.tasks = Append(@, UploadTask(file, "rejected")),
                              !.notifications = Append(@, "error")]
    /\ UNCHANGED NotUp

\* handleFileSelect up to its await: setIsProcessing(true), then
\* handlePDFUpload or handleImageUpload starts
UpSelectFile ==
    /\ Len(up.tasks) < MaxUploads
    /\ \E file \in UploadFiles :
          /\ IsPDFFile(file) \/ IsImageFile(file)
          /\ up' = [up EXCEPT
                      !.tasks = Append(@, UploadTask(file,
                                    IF IsPDFFile(file) THEN "loadPDF" ELSE "readAsDataURL")),
                      !.isProcessing = TRUE]
    /\ UNCHANGED NotUp

\* analyzePDFForFields: parser.loadPDF(file) resolves
UpLoadPDF(k) ==
    /\ up.tasks[k].pc = "loadPDF"
    /\ up' = [up EXCEPT !.tasks[k].pc = "getPDFDimensions"]
    /\ UNCHANGED NotUp

UpGetPDFDimensions_WriteEarly(k) ==
    /\ up.tasks[k].pc = "getPDFDimensions"
    /\ up' = [up EXCEPT !.tasks[k].pc = "extractTextWithPositions",
                        !.tasks[k].dimensions = DimensionsOf(up.tasks[k].file),
                        !.template = ReduceUpdateBackground(@, DimensionsOf(up.tasks[k].file),
                                                            @.backgroundImage)]
    /\ UNCHANGED NotUp

\* parser.getPDFDimensions(pdf) resolves
UpGetPDFDimensions(k) ==
    /\ up.tasks[k].pc = "getPDFDimensions"
    /\ up' = [up EXCEPT !.tasks[k].pc = "extractTextWithPositions",
                        !.tasks[k].dimensions = DimensionsOf(up.tasks[k].file)]
    /\ UNCHANGED NotUp

\* parser.extractTextWithPositions(pdf) resolves; groupNearbyText and
\* detectFormFields follow without an await
UpExtractText(k) ==
    /\ up.tasks[k].pc = "extractTextWithPositions"
    /\ up' = [up EXCEPT !.tasks[k].pc = "convertPageToImage"]
    /\ UNCHANGED NotUp

\* parser.convertPageToImage(pdf) resolves and analyzePDFForFields returns:
\* updateTemplate({ pdfDimensions, backgroundImage }), the success
\* notification, and the finally of handleFileSelect
UpPdfAnalysed(k) ==
    /\ up.tasks[k].pc = "convertPageToImage"
    /\ LET backgroundImage == DataUrlOf(up.tasks[k].file)
       IN  up' = [up EXCEPT !.tasks[k].pc = "done",
                            !.tasks[k].image = backgroundImage,
                            !.template = ReduceUpdateBackground(@, up.tasks[k].dimensions,
                                                                backgroundImage),
                            !.notifications = Append(@, "success"),
                            !.isProcessing = FALSE]
    /\ UNCHANGED NotUp

\* a step of analyzePDFForFields rejects: handlePDFUpload rethrows, the catch
\* of handleFileSelect notifies, and its finally runs
UpPdfFails(k) ==
    /\ up.tasks[k].pc \in {"loadPDF", "getPDFDimensions", "extractTextWithPositions",
                           "convertPageToImage"}
    /\ up' = [up EXCEPT !.tasks[k].pc = "failed",
                        !.notifications = Append(@, "error"),
                        !.isProcessing = FALSE]
    /\ UNCHANGED NotUp

\* reader.onload: img.src = e.target.result
UpReaderLoaded(k) ==
    /\ up.tasks[k].pc = "readAsDataURL"
    /\ up' = [up EXCEPT !.tasks[k].pc = "decode",
                        !.tasks[k].image = DataUrlOf(up.tasks[k].file)]
    /\ UNCHANGED NotUp

\* img.onload: updateTemplate({ pdfDimensions: { width: img.width, height:
\* img.height }, backgroundImage: e.target.result }), the success
\* notification, resolve(), and the finally of handleFileSelect
UpImageLoaded(k) ==
    /\ up.tasks[k].pc = "decode"
    /\ up' = [up EXCEPT !.tasks[k].pc = "done",
                        !.tasks[k].dimensions = DimensionsOf(up.tasks[k].file),
                        !.template = ReduceUpdateBackground(@, DimensionsOf(up.tasks[k].file),
                                                            up.tasks[k].image),
                        !.notifications = Append(@, "success"),
                        !.isProcessing = FALSE]
    /\ UNCHANGED NotUp

\* reader.onerror or img.onerror: reject, the catch of handleFileSelect
\* notifies, and its finally runs
UpImageFails(k) ==
    /\ up.tasks[k].pc \in {"readAsDataURL", "decode"}
    /\ up' = [up EXCEPT !.tasks[k].pc = "failed",
                        !.notifications = Append(@, "error"),
                        !.isProcessing = FALSE]
    /\ UNCHANGED NotUp

UploadNext ==
    \/ UpSelectOther
    \/ UpSelectFile
    \/ \E k \in 1..Len(up.tasks) :
          \/ UpLoadPDF(k)
          \/ UpGetPDFDimensions(k)
          \/ UpExtractText(k)
          \/ UpPdfAnalysed(k)
          \/ UpPdfFails(k)
          \/ UpReaderLoaded(k)
          \/ UpImageLoaded(k)
          \/ UpImageFails(k)

SpecUpload == UploadInit /\ [][UploadNext]_vars

\* the template's pdfDimensions and backgroundImage are those of file
BackgroundFrom(template, file) ==
    /\ template.pdfDimensions = DimensionsOf(file)
    /\ template.backgroundImage = DataUrlOf(file)

\* the upload of task k succeeds in this step
UploadSucceeds(k) == up.tasks[k].pc \notin {"done", "failed", "rejected"} /\ up'.tasks[k].pc = "done"

\* the template's pdfDimensions and backgroundImage are those of no upload:
\* there is no template, or it has the values createNewTemplate gave it
BackgroundFromBefore(template) ==
    template.isNull \/ (template.pdfDimensions = UntitledForm.pdfDimensions
                          /\ template.backgroundImage = UntitledForm.backgroundImage)

\* C30: the template's pdfDimensions and backgroundImage are both those of
\* one uploaded file or both those from before any upload; a step changes
\* them only when an upload succeeds, to the two values of that upload's file
\* at once, and so a failing upload changes neither.
C30_BackgroundWrittenTogether ==
    [][/\ (BackgroundFromBefore(up'.template)
           \/ \E k \in 1..Len(up'.tasks) :
                 up'.tasks[k].pc = "done" /\ BackgroundFrom(up'.template, up'.tasks[k].file))
       /\ (up'.template # up.template =>
             \E k \in 1..Len(up.tasks) :
                UploadSucceeds(k) /\ BackgroundFrom(up'.template, up.tasks[k].file))]_vars

\* C30 witness: two uploads overlapped; b.pdf was selected first and its
\* analysis ended last, after c.png had been loaded, and the template
\* carries both values of b.pdf.
C30_Witness ==
    /\ Len(up.tasks) = 2
    /\ up.tasks[1].file.name = "b.pdf" /\ up.tasks[1].pc = "done"
    /\ up.tasks[2].file.name = "c.png" /\ up.tasks[2].pc = "done"
    /\ up.notifications = <<"success", "success">>
    /\ ~up.template.isNull
    /\ BackgroundFrom(up.template, UploadFile("b.pdf", "application/pdf", 600, 800))

-----------------------------------------------------------------------------
(* FontMatcher                                                              *)
(* A string is the sequence of its characters, so that toLowerCase,         *)
(* includes and the regular expression of matchFont act on its characters. *)

Helvetica == <<"H", "e", "l", "v", "e", "t", "i", "c", "a">>
Arial == <<"A", "r", "i", "a", "l">>
SansSerif == <<"s", "a", "n", "s", "-", "s", "e", "r", "i", "f">>
HelveticaBold == <<"H", "e", "l", "v", "e", "t", "i", "c", "a", "-", "B", "o", "l", "d">>
TimesRoman == <<"T", "i", "m", "e", "s", "-", "R", "o", "m", "a", "n">>
TimesNewRoman == <<"T", "i", "m", "e", "s", " ", "N", "e", "w", " ", "R", "o", "m", "a", "n">>
Times == <<"T", "i", "m", "e", "s">>
Serif == <<"s", "e", "r", "i", "f">>
TimesBold == <<"T", "i", "m", "e", "s", "-", "B", "o", "l", "d">>
Courier == <<"C", "o", "u", "r", "i", "e", "r">>
CourierNew == <<"C", "o", "u", "r", "i", "e", "r", " ", "N", "e", "w">>
Monospace == <<"m", "o", "n", "o", "s", "p", "a", "c", "e">>
CourierBold == <<"C", "o", "u", "r", "i", "e", "r", "-", "B", "o", "l", "d">>
Symbol == <<"S", "y", "m", "b", "o", "l">>
ZapfDingbats == <<"Z", "a", "p", "f", "D", "i", "n", "g", "b", "a", "t", "s">>
ZapfDingbatsSpaced == <<"Z", "a", "p", "f", " ", "D", "i", "n", "g", "b", "a", "t", "s">>
Garamond == <<"G", "a", "r", "a", "m", "o", "n", "d">>
Georgia == <<"G", "e", "o", "r", "g", "i", "a">>
Inter == <<"I", "n", "t", "e", "r">>

UpperCaseLetters == <<"A", "B", "C", "D", "E", "F", "G", "H", "I", "J", "K", "L", "M", "N", "O", "P", "Q", "R", "S", "T", "U", "V", "W", "X", "Y", "Z">>
LowerCaseLetters == <<"a", "b", "c", "d", "e", "f", "g", "h", "i", "j", "k", "l", "m", "n", "o", "p", "q", "r", "s", "t", "u", "v", "w", "x", "y", "z">>

\* the lower-case letter of each upper-case letter
ToLowerTable ==
    [c \in { UpperCaseLetters[i] : i \in 1..26 } |->
        LowerCaseLetters[CHOOSE i \in 1..26 : UpperCaseLetters[i] = c]]

ToUpperTable ==
    [c \in { LowerCaseLetters[i] : i \in 1..26 } |->
        UpperCaseLetters[CHOOSE i \in 1..26 : LowerCaseLetters[i] = c]]

LowerChar(c) == IF c \in DOMAIN ToLowerTable THEN ToLowerTable[c] ELSE c

UpperChar(c) == IF c \in DOMAIN ToUpperTable THEN ToUpperTable[c] ELSE c

\* String.prototype.toLowerCase
toLowerCase(s) == [i \in 1..Len(s) |-> LowerChar(s[i])]

toUpperCase(s) == [i \in 1..Len(s) |-> UpperChar(s[i])]

\* String.prototype.includes
Includes(text, pattern) ==
    \E i \in 0..(Len(text) - Len(pattern)) : SubSeq(text, i + 1, i + Len(pattern)) = pattern

FontMapping(pdfFont, systemFont, fallbacks) ==
    [pdfFont |-> pdfFont, systemFont |-> systemFont, fallbacks |-> fallbacks]

FONT_MAPPINGS ==
    << FontMapping(Helvetica, Arial, <<Helvetica, Arial, SansSerif>>),
       FontMapping(HelveticaBold, Arial, <<Helvetica, Arial, SansSerif>>),
       FontMapping(TimesRoman, TimesNewRoman, <<Times, TimesNewRoman, Serif>>),
       FontMapping(TimesBold, TimesNewRoman, <<Times, TimesNewRoman, Serif>>),
       FontMapping(Courier, CourierNew, <<Courier, CourierNew, Monospace>>),
       FontMapping(CourierBold, CourierNew, <<Courier, CourierNew, Monospace>>),
       FontMapping(Symbol, Symbol, <<Symbol, Serif>>),
       FontMapping(ZapfDingbats, ZapfDingbatsSpaced, <<ZapfDingbatsSpaced, Serif>>) >>

\* new Map(entries.map(e => [key(e).toLowerCase(), e])): a later entry
\* replaces an earlier one under the same key
RECURSIVE MapOf(_, _)
MapOf(entries, key) ==
    IF entries = <<>> THEN <<>>
    ELSE LET last == entries[Len(entries)]
             rest == MapOf(SubSeq(entries, 1, Len(entries) - 1), key)
             k == toLowerCase(last[key])
         IN  [n \in DOMAIN rest \cup {k} |-> IF n = k THEN last ELSE rest[n]]

\* Map.prototype.set
MapSet(map, k, v) == [n \in DOMAIN map \cup {k} |-> IF n = k THEN v ELSE map[n]]

\* constructor(customFonts = [])
NewFontMatcher(customFonts) ==
    [customFonts |-> MapOf(customFonts, "name"), fontMappings |-> MapOf(FONT_MAPPINGS, "pdfFont")]

\* the alternatives of /-(Bold|Italic|BoldItalic|Oblique)/gi, in order; the i
\* flag compares without case
StyleAlternatives ==
    << <<"b", "o", "l", "d">>, <<"i", "t", "a", "l", "i", "c">>, <<"b", "o", "l", "d", "i", "t", "a", "l", "i", "c">>, <<"o", "b", "l", "i", "q", "u", "e">> >>

\* the length of the match of the expression that starts at position i; 0
\* when there is none.  The first alternative that matches is taken.
MatchLengthAt(text, i) ==
    IF text[i] # "-" THEN 0
    ELSE LET fits == { a \in 1..Len(StyleAlternatives) :
                          /\ i + Len(StyleAlternatives[a]) <= Len(text)
                          /\ toLowerCase(SubSeq(text, i + 1, i + Len(StyleAlternatives[a])))
                                = StyleAlternatives[a] }
         IN  IF fits = {} THEN 0
             ELSE 1 + Len(StyleAlternatives[CHOOSE a \in fits : \A b \in fits : a <= b])

\* pdfFontName.replace(/-(Bold|Italic|BoldItalic|Oblique)/gi, '')
RECURSIVE ReplaceStyleFrom(_, _)
ReplaceStyleFrom(text, i) ==
    IF i > Len(text) THEN <<>>
    ELSE IF MatchLengthAt(text, i) > 0
         THEN ReplaceStyleFrom(text, i + MatchLengthAt(text, i))
         ELSE <<text[i]>> \o ReplaceStyleFrom(text, i + 1)

matchFont_MappingsFirst(f, pdfFontName) ==
    LET normalizedName == toLowerCase(pdfFontName)
        baseFontName == ReplaceStyleFrom(pdfFontName, 1)
        normalizedBaseName == toLowerCase(baseFontName)
    IN  IF normalizedName \in DOMAIN f.fontMappings
        THEN f.fontMappings[normalizedName].systemFont
        ELSE IF normalizedName \in DOMAIN f.customFonts
        THEN IF f.customFonts[normalizedName].family # <<>>
             THEN f.customFonts[normalizedName].family
             ELSE pdfFontName
        ELSE IF normalizedBaseName \in DOMAIN f.fontMappings
        THEN IF f.fontMappings[normalizedBaseName].systemFont # <<>>
             THEN f.fontMappings[normalizedBaseName].systemFont
             ELSE pdfFontName
        ELSE pdfFontName

matchFont(f, pdfFontName) ==
    LET normalizedName == toLowerCase(pdfFontName)
        baseFontName == ReplaceStyleFrom(pdfFontName, 1)
        normalizedBaseName == toLowerCase(baseFontName)
    IN  IF normalizedName \in DOMAIN f.customFonts
        THEN IF f.customFonts[normalizedName].family # <<>>
             THEN f.customFonts[normalizedName].family
             ELSE pdfFontName
        ELSE IF normalizedName \in DOMAIN f.fontMappings
        THEN f.fontMappings[normalizedName].systemFont
        ELSE IF normalizedBaseName \in DOMAIN f.fontMappings
        THEN IF f.fontMappings[normalizedBaseName].systemFont # <<>>
             THEN f.fontMappings[normalizedBaseName].systemFont
             ELSE pdfFontName
        ELSE pdfFontName

isSansSerif(fontName) ==
    \E pattern \in { <<"h", "e", "l", "v", "e", "t", "i", "c", "a">>, <<"a", "r", "i", "a", "l">>, <<"v", "e", "r", "d", "a", "n", "a">>, <<"t", "a", "h", "o", "m", "a">>, <<"t", "r", "e", "b", "u", "c", "h", "e", "t">> } :
        Includes(toLowerCase(fontName), pattern)

isMonospace(fontName) ==
    \E pattern \in { <<"c", "o", "u", "r", "i", "e", "r">>, <<"m", "o", "n", "a", "c", "o">>, <<"c", "o", "n", "s", "o", "l", "a", "s">>, <<"m", "o", "n", "o", "s", "p", "a", "c", "e">> } :
        Includes(toLowerCase(fontName), pattern)

getFontFallbacks(f, pdfFontName) ==
    LET normalizedName == toLowerCase(pdfFontName)
    IN  IF normalizedName \in DOMAIN f.fontMappings
        THEN f.fontMappings[normalizedName].fallbacks
        ELSE IF isSansSerif(pdfFontName) THEN <<Arial, Helvetica, SansSerif>>
        ELSE IF isMonospace(pdfFontName) THEN <<CourierNew, Courier, Monospace>>
        ELSE <<TimesNewRoman, Times, Serif>>

addFontMapping(f, pdfFont, systemFont, fallbacks) ==
    [f EXCEPT !.fontMappings = MapSet(@, toLowerCase(pdfFont),
                                      FontMapping(pdfFont, systemFont, fallbacks))]

addCustomFont(f, font) ==
    [f EXCEPT !.customFonts = MapSet(@, toLowerCase(font.name), font)]


MaxFontMutations == 2

Font(name, family) == [name |-> name, family |-> family, path |-> "", loaded |-> TRUE]

\* fonts handed to the constructor or to addCustomFont: one under the name of
\* a builtin mapping (in upper case), one under a new name with an empty family
CustomFontPool == { Font(toUpperCase(Helvetica), Inter), Font(Garamond, <<>>) }

\* mappings handed to addFontMapping: one replacing a builtin mapping, one
\* under a new name
AddedMappingPool ==
    { FontMapping(Helvetica, Georgia, <<Georgia, SansSerif>>),
      FontMapping(toUpperCase(Garamond), Georgia, <<Georgia, Serif>>) }

BuiltinNames == { FONT_MAPPINGS[k].pdfFont : k \in 1..Len(FONT_MAPPINGS) }

\* the style suffixes, two of them also in another letter case; <<>> for a
\* name without suffix
StyleSuffixPool ==
    { <<"B", "o", "l", "d">>, <<"I", "t", "a", "l", "i", "c">>,
      <<"B", "o", "l", "d", "I", "t", "a", "l", "i", "c">>,
      <<"O", "b", "l", "i", "q", "u", "e">>,
      <<"i", "t", "a", "l", "i", "c">>, <<"O", "B", "L", "I", "Q", "U", "E">> }

\* `base` followed by "-" and the style suffix
WithSuffix(base, suffix) == IF suffix = <<>> THEN base ELSE base \o <<"-">> \o suffix

LookupBases == BuiltinNames \cup {Garamond, toLowerCase(Helvetica)}

\* the name `base` with the trailing style suffix
PdfFontName(query) == WithSuffix(query.base, query.suffix)

NoLookup == [op |-> "none", family |-> <<>>, fallbacks |-> <<>>]

\* a FontMatcher is constructed; fm.query is the name its caller resolves
FontInit ==
    /\ ccIdle /\ exIdle /\ gIdle /\ wIdle /\ appInitial /\ rnIdle /\ batIdle /\ edIdle
    /\ saverIdle /\ detIdle /\ upIdle
    /\ \E customFonts \in {<<>>} \cup { <<font>> : font \in CustomFontPool },
          base \in LookupBases, suffix \in StyleSuffixPool \cup {<<>>} :
          fm = [matcher |-> NewFontMatcher(customFonts), constructed |-> customFonts,
                mutations |-> <<>>, query |-> [base |-> base, suffix |-> suffix],
                last |-> NoLookup]

\* fontMatcher.addCustomFont(font)
CallAddCustomFont ==
    /\ Len(fm.mutations) < MaxFontMutations
    /\ \E font \in CustomFontPool :
          fm' = [fm EXCEPT !.matcher = addCustomFont(@, font),
                           !.mutations = Append(@, [op |-> "addCustomFont", font |-> font]),
                           !.last = NoLookup]
    /\ UNCHANGED NotFm

\* fontMatcher.addFontMapping(pdfFont, systemFont, fallbacks)
CallAddFontMapping ==
    /\ Len(fm.mutations) < MaxFontMutations
    /\ \E m \in AddedMappingPool :
          fm' = [fm EXCEPT !.matcher = addFontMapping(@, m.pdfFont, m.systemFont, m.fallbacks),
                           !.mutations = Append(@, [op |-> "addFontMapping", mapping |-> m]),
                           !.last = NoLookup]
    /\ UNCHANGED NotFm

\* fontMatcher.matchFont(pdfFontName)
CallMatchFont ==
    /\ fm' = [fm EXCEPT !.last = [op |-> "matchFont",
                                  family |-> matchFont(fm.matcher, PdfFontName(fm.query)),
                                  fallbacks |-> <<>>]]
    /\ UNCHANGED NotFm

\* fontMatcher.getFontFallbacks(pdfFontName)
CallGetFontFallbacks ==
    /\ fm' = [fm EXCEPT !.last = [op |-> "getFontFallbacks",
                                  family |-> <<>>,
                                  fallbacks |-> getFontFallbacks(fm.matcher,
                                                                 PdfFontName(fm.query))]]
    /\ UNCHANGED NotFm

FontNext == CallAddCustomFont \/ CallAddFontMapping \/ CallMatchFont \/ CallGetFontFallbacks

SpecFont == FontInit /\ [][FontNext]_vars

\* C22: for every name B of the builtin font table and every style suffix S
\* in any letter case, resolving B with the trailing suffix S yields the
\* family and the fallback chain that resolving B yields.
C22_SuffixResolvesAsBase ==
    (fm.query.base \in BuiltinNames /\ fm.query.suffix # <<>>) =>
        /\ fm.last.op = "matchFont" => fm.last.family = matchFont(fm.matcher, fm.query.base)
        /\ fm.last.op = "getFontFallbacks" =>
              fm.last.fallbacks = getFontFallbacks(fm.matcher, fm.query.base)


\* the fonts registered so far, by the constructor and by addCustomFont, in order
RECURSIVE FontsAdded(_)
FontsAdded(mutations) ==
    IF mutations = <<>> THEN <<>>
    ELSE IF mutations[1].op = "addCustomFont"
         THEN <<mutations[1].font>> \o FontsAdded(Tail(mutations))
         ELSE FontsAdded(Tail(mutations))

\* the mappings registered so far by addFontMapping, in order
RECURSIVE MappingsAdded(_)
MappingsAdded(mutations) ==
    IF mutations = <<>> THEN <<>>
    ELSE IF mutations[1].op = "addFontMapping"
         THEN <<mutations[1].mapping>> \o MappingsAdded(Tail(mutations))
         ELSE MappingsAdded(Tail(mutations))

\* the custom fonts registered under the name that is resolved, whatever its
\* letter case, in the order of their registration
CustomFontsUnderQuery ==
    SelectSeq(fm.constructed \o FontsAdded(fm.mutations),
              LAMBDA font : toLowerCase(font.name) = toLowerCase(PdfFontName(fm.query)))

\* the mappings added under the name that is resolved, in the order of their
\* registration
MappingsUnderQuery ==
    SelectSeq(MappingsAdded(fm.mutations),
              LAMBDA m : toLowerCase(m.pdfFont) = toLowerCase(PdfFontName(fm.query)))

LatestOf(seq) == seq[Len(seq)]

\* a lookup made with no custom font under the name returns what the latest
\* addFontMapping under that name registered
AddedMappingResolves ==
    (CustomFontsUnderQuery = <<>> /\ MappingsUnderQuery # <<>>) =>
        /\ fm.last.op = "matchFont" => fm.last.family = LatestOf(MappingsUnderQuery).systemFont
        /\ fm.last.op = "getFontFallbacks" =>
              fm.last.fallbacks = LatestOf(MappingsUnderQuery).fallbacks

\* C23 as stated: a lookup reflects the registry as it is: matchFont returns
\* the family of the custom font registered latest under the name, even when
\* a mapping exists for it; with no custom font under the name, matchFont and
\* getFontFallbacks return what the latest addFontMapping under it registered.
C23_RegistryFirst ==
    /\ (fm.last.op = "matchFont" /\ CustomFontsUnderQuery # <<>>) =>
          fm.last.family = LatestOf(CustomFontsUnderQuery).family
    /\ AddedMappingResolves

\* C23 as amended: the same, where a custom font whose family is the empty
\* string resolves to the name that was looked up.
C23_RegistryFirstNonEmpty ==
    /\ (fm.last.op = "matchFont" /\ CustomFontsUnderQuery # <<>>) =>
          fm.last.family = IF LatestOf(CustomFontsUnderQuery).family # <<>>
                           THEN LatestOf(CustomFontsUnderQuery).family
                           ELSE PdfFontName(fm.query)
    /\ AddedMappingResolves

\* C23 witness: Helvetica has a builtin mapping, a mapping to Georgia was
\* added for it, then a custom font was registered under HELVETICA; the lookup
\* of Helvetica returns the custom font's family.
C23_Witness ==
    /\ fm.constructed = <<>>
    /\ Len(fm.mutations) = 2
    /\ fm.mutations[1] = [op |-> "addFontMapping",
                          mapping |-> FontMapping(Helvetica, Georgia, <<Georgia, SansSerif>>)]
    /\ fm.mutations[2] = [op |-> "addCustomFont", font |-> Font(toUpperCase(Helvetica), Inter)]
    /\ fm.query = [base |-> Helvetica, suffix |-> <<>>]
    /\ fm.last.op = "matchFont"
    /\ fm.last.family = Inter

-----------------------------------------------------------------------------
(* PDFParser.detectFormFields                                               *)
(* The text of a line is the sequence of its characters.                    *)

\* labelPatterns, each without its i flag
labelPatterns ==
    << <<"n", "a", "m", "e">>, <<"a", "d", "d", "r", "e", "s", "s">>, <<"p", "h", "o", "n", "e">>, <<"e", "m", "a", "i", "l">>, <<"d", "a", "t", "e">>, <<"s", "i", "g", "n", "a", "t", "u", "r", "e">>,
       <<"a", "m", "o", "u", "n", "t">>, <<"n", "u", "m", "b", "e", "r">>, <<"c", "i", "t", "y">>, <<"s", "t", "a", "t", "e">>, <<"z", "i", "p">>, <<"c", "o", "u", "n", "t", "r", "y">> >>

RegExpTest_CaseSensitive(pattern, text) == Includes(text, pattern)

\* pattern.test(text) for a pattern of literal characters with the i flag
RegExpTest(pattern, text) == Includes(toLowerCase(text), pattern)

\* labelPatterns.some(pattern => pattern.test(field.text))
isLabel(field) == \E k \in 1..Len(labelPatterns) : RegExpTest(labelPatterns[k], field.text)

\* the forEach over extractedData
RECURSIVE detectFormFields(_)
detectFormFields(extractedData) ==
    IF extractedData = <<>> THEN <<>>
    ELSE IF isLabel(extractedData[1])
         THEN <<extractedData[1]>> \o detectFormFields(Tail(extractedData))
         ELSE detectFormFields(Tail(extractedData))

MaxLines == 3

MergedLine(text, y) ==
    [text |-> text, x |-> Num(40), y |-> Num(y), width |-> Num(60), height |-> Num(10),
     fontName |-> "Helvetica", fontSize |-> Num(10)]

\* merged lines: "Full Name" twice at different heights, "EMAIL", "Update"
\* (which holds "date"), "Zip code", and "Total" and "Qty", which hold no label
MergedLinePool ==
    { MergedLine(<<"F", "u", "l", "l", " ", "N", "a", "m", "e">>, 700),
      MergedLine(<<"F", "u", "l", "l", " ", "N", "a", "m", "e">>, 650),
      MergedLine(<<"E", "M", "A", "I", "L">>, 600),
      MergedLine(<<"U", "p", "d", "a", "t", "e">>, 550),
      MergedLine(<<"T", "o", "t", "a", "l">>, 500),
      MergedLine(<<"Z", "i", "p", " ", "c", "o", "d", "e">>, 450),
      MergedLine(<<"Q", "t", "y">>, 400) }

DetectInit ==
    /\ ccIdle /\ exIdle /\ gIdle /\ wIdle /\ appInitial /\ rnIdle /\ batIdle /\ edIdle
    /\ saverIdle /\ fmIdle /\ upIdle
    /\ \E lines \in SeqsUpTo(MergedLinePool, MaxLines) :
          det = [extractedData |-> lines, formFields |-> <<>>, done |-> FALSE]

\* parser.detectFormFields(groupedText)
CallDetectFormFields ==
    /\ det' = [det EXCEPT !.formFields = detectFormFields(det.extractedData), !.done = TRUE]
    /\ UNCHANGED NotDet

DetectNext == CallDetectFormFields

SpecDetect == DetectInit /\ [][DetectNext]_vars

\* the characters `word` stand in `text` from position i on, in any letter case
StandsAt(word, text, i) ==
    /\ i + Len(word) - 1 <= Len(text)
    /\ \A j \in 1..Len(word) : text[i + j - 1] \in {word[j], UpperChar(word[j])}

\* the text holds one of the twelve label words, in any letter case
HoldsLabelWord(text) ==
    \E k \in 1..Len(labelPatterns), i \in 1..Len(text) : StandsAt(labelPatterns[k], text, i)

\* the positions of the input whose line holds a label word
LabelPositions == { i \in 1..Len(det.extractedData) : HoldsLabelWord(det.extractedData[i].text) }

\* C24: detectFormFields returns exactly the lines whose text matches one of
\* the case-insensitive label patterns, each unchanged and in the order of the
\* input; a line that matches none is not returned.
C24_ExactlyLabelLines ==
    det.done =>
        /\ Len(det.formFields) = Cardinality(LabelPositions)
        /\ \A i \in LabelPositions :
              det.formFields[Cardinality({ j \in LabelPositions : j <= i })] = det.extractedData[i]

\* C24 witness: of "Total", "EMAIL" and "Full Name" the call returned the last
\* two, in this order.
C24_Witness ==
    /\ det.done
    /\ Len(det.extractedData) = 3
    /\ det.extractedData[1].text = <<"T", "o", "t", "a", "l">>
    /\ det.extractedData[2].text = <<"E", "M", "A", "I", "L">>
    /\ det.formFields = SubSeq(det.extractedData, 2, 3)

=============================================================================
